---- MODULE Spec2Model ----
(***************************************************************************)
(* The enrollment registry of BannerWeb (course.py, student.py,            *)
(* enrollment_system.py) as a state machine.                               *)
(*                                                                         *)
(* Python strings the code looks into (ids, days, time, numeric cells) are *)
(* sequences of one-character strings; strings the code only tests for     *)
(* emptiness and copies (names, instructor, location) are TLA+ strings.    *)
(* A Python set is a set.  A dict is a function on its keys; the order in  *)
(* which a dict or a set lists its elements is one fixed order per         *)
(* collection (IterationOrder).                                            *)
(***************************************************************************)
EXTENDS Integers, Sequences, FiniteSets, TLC

VARIABLES
    students,   \* EnrollmentSystem.students : student_id -> Student
    courses,    \* EnrollmentSystem.courses  : course_id -> Course
    disk,       \* the three files of data_directory
    result,     \* the last call and what it returned to its caller
    held,       \* history: pairs <<s, c>> enrolled by a successful call, not dropped since
    snapshot,   \* history: the registry before the last successful enroll_student
    users,      \* AuthenticationSystem.users : username -> User
    users_auth, \* the rows of users_auth.csv
    current_user \* AuthenticationSystem.current_user : None or the key of a user

auth_vars == <<users, users_auth, current_user>>
vars == <<students, courses, disk, result, held, snapshot, users, users_auth, current_user>>

(***************************************************************************)
(* Bounds of the model.                                                    *)
(***************************************************************************)
MaxSeats == 2        \* capacities offered to add_course and found in files: up to MaxSeats
ChunkRows == 2       \* rows of a file that the text layer decodes together

(***************************************************************************)
(* Python values and str methods.                                          *)
(***************************************************************************)
PyInt(n) == [t |-> "int", v |-> n]
PyStr(s) == [t |-> "str", v |-> s]
PyNone == [t |-> "None", v |-> 0]
PyBool(b) == [t |-> "bool", v |-> b]

Range(f) == {f[i] : i \in DOMAIN f}

Whitespace == {" "}
Digits == {"0", "1", "2", "3", "4", "5", "6", "7", "8", "9"}

DigitVal(ch) ==
    CASE ch = "0" -> 0 [] ch = "1" -> 1 [] ch = "2" -> 2 [] ch = "3" -> 3
      [] ch = "4" -> 4 [] ch = "5" -> 5 [] ch = "6" -> 6 [] ch = "7" -> 7
      [] ch = "8" -> 8 [] ch = "9" -> 9

DigitChar(d) == <<"0", "1", "2", "3", "4", "5", "6", "7", "8", "9">>[d + 1]

\* str.split(sep) for a one-character sep: always at least one piece.
RECURSIVE split(_, _)
split(s, sep) ==
    IF \A i \in DOMAIN s : s[i] # sep
    THEN <<s>>
    ELSE LET k == CHOOSE i \in DOMAIN s :
                      s[i] = sep /\ \A j \in 1..(i - 1) : s[j] # sep
         IN <<SubSeq(s, 1, k - 1)>> \o split(SubSeq(s, k + 1, Len(s)), sep)

\* str.strip()
RECURSIVE strip(_)
strip(s) ==
    IF s = <<>> THEN s
    ELSE IF s[1] \in Whitespace THEN strip(Tail(s))
    ELSE IF s[Len(s)] \in Whitespace THEN strip(SubSeq(s, 1, Len(s) - 1))
    ELSE s

\* sep.join(pieces), pieces a sequence of strings
RECURSIVE join(_, _)
join(sep, pieces) ==
    IF pieces = <<>> THEN <<>>
    ELSE IF Len(pieces) = 1 THEN pieces[1]
    ELSE pieces[1] \o <<sep>> \o join(sep, Tail(pieces))

RECURSIVE DecimalValue(_)
DecimalValue(ds) ==
    IF ds = <<>> THEN 0
    ELSE 10 * DecimalValue(SubSeq(ds, 1, Len(ds) - 1)) + DigitVal(ds[Len(ds)])

\* int(x): [ok, v] on success, [ok |-> FALSE, exc] when it raises.
\* int of a str strips whitespace, takes an optional sign and needs digits;
\* int(None) raises TypeError, not ValueError.
IntOfStr(s) ==
    LET body == strip(s)
        signed == body # <<>> /\ body[1] \in {"+", "-"}
        ds == IF signed THEN Tail(body) ELSE body
    IN IF ds # <<>> /\ \A i \in DOMAIN ds : ds[i] \in Digits
       THEN [ok |-> TRUE, v |-> IF signed /\ body[1] = "-"
                                THEN 0 - DecimalValue(ds) ELSE DecimalValue(ds),
             exc |-> ""]
       ELSE [ok |-> FALSE, v |-> 0, exc |-> "ValueError"]

int(x) ==
    CASE x.t = "int" -> [ok |-> TRUE, v |-> x.v, exc |-> ""]
      [] x.t = "str" -> IntOfStr(x.v)
      [] x.t = "None" -> [ok |-> FALSE, v |-> 0, exc |-> "TypeError"]

\* str(n) of an int
RECURSIVE DecimalDigits(_)
DecimalDigits(n) ==
    IF n < 10 THEN <<DigitChar(n)>>
    ELSE DecimalDigits(n \div 10) \o <<DigitChar(n % 10)>>

str(n) == IF n < 0 THEN <<"-">> \o DecimalDigits(0 - n) ELSE DecimalDigits(n)

(***************************************************************************)
(* student.py                                                              *)
(***************************************************************************)
Student(student_id, name) ==
    [student_id |-> student_id, name |-> name, registered_courses |-> {}]

Student_add_course(student, course_id) ==
    [student EXCEPT !.registered_courses = @ \cup {course_id}]

Student_remove_course_not_removing(student, course_id) == student

Student_remove_course(student, course_id) ==
    [student EXCEPT !.registered_courses = @ \ {course_id}]

(***************************************************************************)
(* course.py                                                               *)
(***************************************************************************)
Course(course_id, name, instructor, max_students, days, time, location) ==
    [course_id |-> course_id, name |-> name, instructor |-> instructor,
     enrolled_students |-> {}, max_students |-> max_students,
     days |-> days, time |-> time, location |-> location]

\* add_student returns False without touching the set when the course is at
\* capacity; the caller (enroll_student) ignores the returned flag.
Course_add_student(course, student_id) ==
    IF Cardinality(course.enrolled_students) >= course.max_students
    THEN course
    ELSE [course EXCEPT !.enrolled_students = @ \cup {student_id}]

\* The flag add_student hands back: False at capacity, whoever is asked for.
Course_add_student_returned(course, student_id) ==
    ~(Cardinality(course.enrolled_students) >= course.max_students)

\* A remove_student that leaves the set as it is.
Course_remove_student_keeping(course, student_id) == course

Course_remove_student(course, student_id) ==
    [course EXCEPT !.enrolled_students = @ \ {student_id}]

is_full_above_capacity(course) ==
    Cardinality(course.enrolled_students) > course.max_students

is_full(course) == Cardinality(course.enrolled_students) >= course.max_students

\* hour, minute = map(int, time_str.split(':')): raises unless there are
\* exactly two pieces and int() takes both.
_time_to_minutes(time_str) ==
    LET parts == split(time_str, ":")
    IN IF Len(parts) = 2 /\ IntOfStr(parts[1]).ok /\ IntOfStr(parts[2]).ok
       THEN [ok |-> TRUE, v |-> IntOfStr(parts[1]).v * 60 + IntOfStr(parts[2]).v]
       ELSE [ok |-> FALSE, v |-> 0]

\* start_str, end_str = time_range.split('-'): raises unless exactly two pieces.
_parse_time_range(time_range) ==
    LET parts == split(time_range, "-")
    IN IF Len(parts) = 2
          /\ _time_to_minutes(strip(parts[1])).ok
          /\ _time_to_minutes(strip(parts[2])).ok
       THEN [ok |-> TRUE,
             start |-> _time_to_minutes(strip(parts[1])).v,
             end |-> _time_to_minutes(strip(parts[2])).v]
       ELSE [ok |-> FALSE, start |-> 0, end |-> 0]

_times_overlap_closed_ranges(time1, time2) ==
    LET r1 == _parse_time_range(time1)
        r2 == _parse_time_range(time2)
    IN IF r1.ok /\ r2.ok
       THEN r1.start <= r2.end /\ r2.start <= r1.end
       ELSE FALSE

_times_overlap_failing_closed(time1, time2) ==
    LET r1 == _parse_time_range(time1)
        r2 == _parse_time_range(time2)
    IN IF r1.ok /\ r2.ok
       THEN r1.start < r2.end /\ r2.start < r1.end
       ELSE TRUE

\* The bare except turns every parsing failure into "no overlap".
\* Half of the overlap test: the first range starts before the second ends.
_times_overlap_one_sided(time1, time2) ==
    LET r1 == _parse_time_range(time1)
        r2 == _parse_time_range(time2)
    IN IF r1.ok /\ r2.ok
       THEN r1.start < r2.end
       ELSE FALSE

_times_overlap(time1, time2) ==
    LET r1 == _parse_time_range(time1)
        r2 == _parse_time_range(time2)
    IN IF r1.ok /\ r2.ok
       THEN r1.start < r2.end /\ r2.start < r1.end
       ELSE FALSE

_has_common_days_whatever_the_days(self, other_days) == TRUE

\* set(self.days) & set(other_days): the characters of the two strings.
_has_common_days(self, other_days) ==
    Range(self.days) \cap Range(other_days) # {}

has_schedule_conflict(self, other_course) ==
    IF self.days = <<>> \/ self.time = <<>>
       \/ other_course.days = <<>> \/ other_course.time = <<>>
    THEN FALSE
    ELSE IF ~_has_common_days(self, other_course.days)
    THEN FALSE
    ELSE _times_overlap(self.time, other_course.time)

(***************************************************************************)
(* enrollment_system.py: dicts and the three CSV files.                    *)
(***************************************************************************)
EmptyDict == [k \in {} |-> k]

\* d[key] = value
Put(d, key, value) ==
    [k \in DOMAIN d \cup {key} |-> IF k = key THEN value ELSE d[k]]

\* The order in which Python iterates a set or the keys of a dict: one fixed
\* order per collection.
RECURSIVE IterationOrder(_)
IterationOrder(S) ==
    IF S = {} THEN <<>>
    ELSE LET x == CHOOSE y \in S : TRUE
         IN <<x>> \o IterationOrder(S \ {x})

\* A file: its data rows and, when its bytes are not all valid text, the
\* number of the first row holding such bytes (0: every byte decodes).
NoFile == [exists |-> FALSE, rows |-> <<>>, undecodable |-> 0]
FileOf(rows) == [exists |-> TRUE, rows |-> rows, undecodable |-> 0]

ReadableRows_to_the_end(file) == file.rows

\* for row in reader: the rows handed over before the iteration raises.
\* open() decodes the file chunk by chunk, ChunkRows rows at a time, and
\* raises UnicodeDecodeError when it reads the chunk holding the bad bytes:
\* no row of that chunk is handed over, the rows of earlier chunks were.
ReadableRows(file) ==
    IF file.undecodable = 0 THEN file.rows
    ELSE SubSeq(file.rows, 1, ChunkRows * ((file.undecodable - 1) \div ChunkRows))

\* A row handed over by csv.DictReader is a dict: a cell is a str, None when
\* the row is shorter than the header, and its key is absent from the dict
\* when the header does not name the column.  row.get(key, default) is the
\* default for an absent key only.
NoColumn == [t |-> "absent", v |-> 0]
row_get(cell, default) == IF cell.t = "absent" THEN default ELSE cell
DefaultMaxStudents == 30

\* One row of courses.csv as csv.DictReader hands it over: every cell a str.
CourseRow(course) ==
    [course_id |-> course.course_id,
     name |-> course.name,
     instructor |-> course.instructor,
     max_students |-> PyStr(str(course.max_students)),
     enrolled_students |-> join(";", IterationOrder(course.enrolled_students)),
     days |-> course.days,
     time |-> course.time,
     location |-> course.location]

StudentRow(student) ==
    [student_id |-> student.student_id,
     name |-> student.name,
     registered_courses |-> join(";", IterationOrder(student.registered_courses))]

\* A loader that checks what it reads: a row listing more members than it
\* has seats, or without a seat, is passed over.
RECURSIVE load_courses_passing_over_invalid(_, _)
load_courses_passing_over_invalid(rows, loaded) ==
    IF rows = <<>> THEN loaded
    ELSE LET row == Head(rows)
             n == int(row_get(row.max_students, PyInt(DefaultMaxStudents)))
             members == IF row.enrolled_students # <<>>
                        THEN Range(split(row.enrolled_students, ";")) ELSE {}
             course == [Course(row.course_id, row.name, row.instructor, n.v,
                               row.days, row.time, row.location)
                           EXCEPT !.enrolled_students = members]
         IN IF ~n.ok THEN loaded
            ELSE IF n.v < 1 \/ Cardinality(members) > n.v
            THEN load_courses_passing_over_invalid(Tail(rows), loaded)
            ELSE load_courses_passing_over_invalid(Tail(rows),
                                                   Put(loaded, row.course_id, course))

\* for row in reader: ... self.courses[course.course_id] = course.  A row
\* whose max_students int() refuses (ValueError for a cell that is no number,
\* TypeError for the None of a row cut short) raises inside the loop: the
\* except Exception ends the loading of this file and what was loaded before
\* stays.
RECURSIVE load_courses(_, _)
load_courses(rows, loaded) ==
    IF rows = <<>> THEN loaded
    ELSE LET row == Head(rows)
             n == int(row_get(row.max_students, PyInt(DefaultMaxStudents)))
             made == Course(row.course_id, row.name, row.instructor, n.v,
                            row.days, row.time, row.location)
             course == IF row.enrolled_students # <<>>
                       THEN [made EXCEPT !.enrolled_students =
                                Range(split(row.enrolled_students, ";"))]
                       ELSE made
         IN IF ~n.ok THEN loaded
            ELSE load_courses(Tail(rows), Put(loaded, row.course_id, course))

RECURSIVE load_students(_, _)
load_students(rows, loaded) ==
    IF rows = <<>> THEN loaded
    ELSE LET row == Head(rows)
             made == Student(row.student_id, row.name)
             student == IF row.registered_courses # <<>>
                        THEN [made EXCEPT !.registered_courses =
                                 Range(split(row.registered_courses, ";"))]
                        ELSE made
         IN load_students(Tail(rows), Put(loaded, row.student_id, student))

\* A loader that also reads enrollments.csv and adds its pairs to the
\* students it loaded.
load_data_reading_enrollments(files) ==
    LET loaded == IF files.students.exists
                  THEN load_students(ReadableRows(files.students), EmptyDict)
                  ELSE EmptyDict
        pairs == Range(files.enrollments.rows)
    IN [students |-> [s \in DOMAIN loaded |->
                         [loaded[s] EXCEPT !.registered_courses =
                             @ \cup {p.course_id : p \in {q \in pairs : q.student_id = s}}]],
        courses |-> IF files.courses.exists
                    THEN load_courses(ReadableRows(files.courses), EmptyDict)
                    ELSE EmptyDict]

\* load_data on the freshly constructed (empty) registry.
load_data(files) ==
    [students |-> IF files.students.exists
                  THEN load_students(ReadableRows(files.students), EmptyDict)
                  ELSE EmptyDict,
     courses |-> IF files.courses.exists
                 THEN load_courses(ReadableRows(files.courses), EmptyDict)
                 ELSE EmptyDict]

\* save_data rewrites the three files from the whole in-memory state.
save_data(S, C) ==
    LET sids == IterationOrder(DOMAIN S)
        cids == IterationOrder(DOMAIN C)
        pairs(sid) == LET regs == IterationOrder(S[sid].registered_courses)
                      IN [i \in DOMAIN regs |->
                             [student_id |-> S[sid].student_id, course_id |-> regs[i]]]
        RECURSIVE flat(_)
        flat(ids) == IF ids = <<>> THEN <<>>
                     ELSE pairs(Head(ids)) \o flat(Tail(ids))
    IN [courses |-> FileOf([i \in DOMAIN cids |-> CourseRow(C[cids[i]])]),
        students |-> FileOf([i \in DOMAIN sids |-> StudentRow(S[sids[i]])]),
        enrollments |-> FileOf(flat(sids))]

\* What the writing of one file comes to: "none" (written), "open" (open()
\* raises, the file stays as it was) or "write" (the first writerow raises,
\* the file is left with its header alone).  Each of the three try blocks
\* of save_data catches its own exception and prints it.
Tables == {"courses", "students", "enrollments"}
Faults == [Tables -> {"none", "open", "write"}]
NoFault == [table \in Tables |-> "none"]
Unwritten(fault) == {table \in Tables : fault[table] # "none"}

WriteFile(old, new, how) ==
    CASE how = "none" -> new
      [] how = "open" -> old
      [] how = "write" -> FileOf(<<>>)

\* A save_data with one try around the three writes: the first write that
\* fails is the last one attempted.
save_data_onto_stopping_at_first_failure(files, S, C, fault) ==
    LET stop_c == fault["courses"] # "none"
        stop_s == stop_c \/ fault["students"] # "none"
    IN [courses |-> WriteFile(files.courses, save_data(S, C).courses, fault["courses"]),
        students |-> IF stop_c THEN files.students
                     ELSE WriteFile(files.students, save_data(S, C).students,
                                    fault["students"]),
        enrollments |-> IF stop_s THEN files.enrollments
                        ELSE WriteFile(files.enrollments, save_data(S, C).enrollments,
                                       fault["enrollments"])]

\* save_data on a directory holding `files`, its writes meeting `fault`.
save_data_onto(files, S, C, fault) ==
    [courses |-> WriteFile(files.courses, save_data(S, C).courses, fault["courses"]),
     students |-> WriteFile(files.students, save_data(S, C).students, fault["students"]),
     enrollments |->
         WriteFile(files.enrollments, save_data(S, C).enrollments, fault["enrollments"])]

(***************************************************************************)
(* enrollment_system.py: the four mutating operations, each as the         *)
(* function (registry, arguments) -> (registry, what the caller gets).     *)
(* saved tells whether the call reached self.save_data().                  *)
(***************************************************************************)
Returns(S, C, saved, ok, msg) ==
    [students |-> S, courses |-> C, saved |-> saved,
     returned |-> TRUE, ok |-> ok, msg |-> msg]

\* The call ends by an exception that nothing in the registry catches.
Raises(S, C, exc) ==
    [students |-> S, courses |-> C, saved |-> FALSE,
     returned |-> FALSE, ok |-> FALSE, msg |-> exc]

register_student_call_overwriting(S, C, student_id, name) ==
    IF student_id = <<>> \/ name = ""
    THEN Returns(S, C, FALSE, FALSE, "Student ID and name cannot be empty.")
    ELSE Returns(Put(S, student_id, Student(student_id, name)), C, TRUE, TRUE,
                 "Student {name} registered successfully with ID {student_id}.")

\* A registration that takes a known id as a change of name.
register_student_call_renaming(S, C, student_id, name) ==
    IF student_id = <<>> \/ name = ""
    THEN Returns(S, C, FALSE, FALSE, "Student ID and name cannot be empty.")
    ELSE IF student_id \in DOMAIN S
    THEN Returns([S EXCEPT ![student_id].name = name], C, TRUE, TRUE,
                 "Student {name} registered successfully with ID {student_id}.")
    ELSE Returns(Put(S, student_id, Student(student_id, name)), C, TRUE, TRUE,
                 "Student {name} registered successfully with ID {student_id}.")

register_student_call(S, C, student_id, name) ==
    IF student_id = <<>> \/ name = ""
    THEN Returns(S, C, FALSE, FALSE, "Student ID and name cannot be empty.")
    ELSE IF student_id \in DOMAIN S
    THEN Returns(S, C, FALSE, FALSE, "Student ID {student_id} already exists.")
    ELSE Returns(Put(S, student_id, Student(student_id, name)), C, TRUE, TRUE,
                 "Student {name} registered successfully with ID {student_id}.")

add_course_call_any_capacity(S, C, course_id, name, instructor, max_students) ==
    IF course_id = <<>> \/ name = "" \/ instructor = ""
    THEN Returns(S, C, FALSE, FALSE, "Course ID, name, and instructor cannot be empty.")
    ELSE IF course_id \in DOMAIN C
    THEN Returns(S, C, FALSE, FALSE, "Course ID {course_id} already exists.")
    ELSE LET n == int(max_students)
         IN IF ~n.ok /\ n.exc = "ValueError"
            THEN Returns(S, C, FALSE, FALSE, "Maximum students must be a valid number.")
            ELSE IF ~n.ok
            THEN Raises(S, C, n.exc)
            ELSE Returns(S, Put(C, course_id,
                                Course(course_id, name, instructor, n.v, <<>>, <<>>, "")),
                         TRUE, TRUE, "Course {name} added successfully with ID {course_id}.")

\* An add_course that gives every new course the same Monday morning slot.
add_course_call_with_a_schedule(S, C, course_id, name, instructor, max_students) ==
    IF course_id = <<>> \/ name = "" \/ instructor = ""
    THEN Returns(S, C, FALSE, FALSE, "Course ID, name, and instructor cannot be empty.")
    ELSE IF course_id \in DOMAIN C
    THEN Returns(S, C, FALSE, FALSE, "Course ID {course_id} already exists.")
    ELSE LET n == int(max_students)
         IN IF ~n.ok /\ n.exc = "ValueError"
            THEN Returns(S, C, FALSE, FALSE, "Maximum students must be a valid number.")
            ELSE IF ~n.ok
            THEN Raises(S, C, n.exc)
            ELSE IF n.v <= 0
            THEN Returns(S, C, FALSE, FALSE, "Maximum students must be a positive number.")
            ELSE Returns(S, Put(C, course_id,
                                Course(course_id, name, instructor, n.v, <<"M">>,
                                       <<"9", ":", "0", "0", "-", "1", "0", ":", "1", "5">>,
                                       "Hall 1")),
                         TRUE, TRUE, "Course {name} added successfully with ID {course_id}.")

\* Only ValueError is caught around int(max_students).
add_course_call(S, C, course_id, name, instructor, max_students) ==
    IF course_id = <<>> \/ name = "" \/ instructor = ""
    THEN Returns(S, C, FALSE, FALSE, "Course ID, name, and instructor cannot be empty.")
    ELSE IF course_id \in DOMAIN C
    THEN Returns(S, C, FALSE, FALSE, "Course ID {course_id} already exists.")
    ELSE LET n == int(max_students)
         IN IF ~n.ok /\ n.exc = "ValueError"
            THEN Returns(S, C, FALSE, FALSE, "Maximum students must be a valid number.")
            ELSE IF ~n.ok
            THEN Raises(S, C, n.exc)
            ELSE IF n.v <= 0
            THEN Returns(S, C, FALSE, FALSE, "Maximum students must be a positive number.")
            ELSE Returns(S, Put(C, course_id,
                                Course(course_id, name, instructor, n.v, <<>>, <<>>, "")),
                         TRUE, TRUE, "Course {name} added successfully with ID {course_id}.")

HasConflictWithEnrolled_after_adding(S, C, student_id, course_id) ==
    \E enrolled_course_id \in S[student_id].registered_courses \cup {course_id} :
        /\ enrolled_course_id \in DOMAIN C
        /\ has_schedule_conflict(C[course_id], C[enrolled_course_id])

\* for enrolled_course_id in student.registered_courses: ids without a course
\* are skipped.
\* An enrolment that never looks at the schedules.
HasConflictWithEnrolled_never(S, C, student_id, course_id) == FALSE

HasConflictWithEnrolled(S, C, student_id, course_id) ==
    \E enrolled_course_id \in S[student_id].registered_courses :
        /\ enrolled_course_id \in DOMAIN C
        /\ has_schedule_conflict(C[course_id], C[enrolled_course_id])

enroll_student_call_no_duplicate_check(S, C, student_id, course_id) ==
    IF student_id \notin DOMAIN S
    THEN Returns(S, C, FALSE, FALSE, "Student ID {student_id} not found.")
    ELSE IF course_id \notin DOMAIN C
    THEN Returns(S, C, FALSE, FALSE, "Course ID {course_id} not found.")
    ELSE IF is_full(C[course_id])
    THEN Returns(S, C, FALSE, FALSE, "Course {course.name} is full. No seats available.")
    ELSE IF HasConflictWithEnrolled(S, C, student_id, course_id)
    THEN Returns(S, C, FALSE, FALSE, "SCHEDULE CONFLICT")
    ELSE Returns([S EXCEPT ![student_id] = Student_add_course(@, course_id)],
                 [C EXCEPT ![course_id] = Course_add_student(@, student_id)],
                 TRUE, TRUE,
                 "Student {student.name} successfully enrolled in {course.name}.")

enroll_student_call_conflict_before_full(S, C, student_id, course_id) ==
    IF student_id \notin DOMAIN S
    THEN Returns(S, C, FALSE, FALSE, "Student ID {student_id} not found.")
    ELSE IF course_id \notin DOMAIN C
    THEN Returns(S, C, FALSE, FALSE, "Course ID {course_id} not found.")
    ELSE IF course_id \in S[student_id].registered_courses
    THEN Returns(S, C, FALSE, FALSE, "Student is already enrolled in {course.name}.")
    ELSE IF HasConflictWithEnrolled(S, C, student_id, course_id)
    THEN Returns(S, C, FALSE, FALSE, "SCHEDULE CONFLICT")
    ELSE IF is_full(C[course_id])
    THEN Returns(S, C, FALSE, FALSE, "Course {course.name} is full. No seats available.")
    ELSE Returns([S EXCEPT ![student_id] = Student_add_course(@, course_id)],
                 [C EXCEPT ![course_id] = Course_add_student(@, student_id)],
                 TRUE, TRUE,
                 "Student {student.name} successfully enrolled in {course.name}.")

\* An enrolment that notes the course on the student before it looks at the
\* seats.
enroll_student_call_adding_before_checks(S, C, student_id, course_id) ==
    IF student_id \notin DOMAIN S
    THEN Returns(S, C, FALSE, FALSE, "Student ID {student_id} not found.")
    ELSE IF course_id \notin DOMAIN C
    THEN Returns(S, C, FALSE, FALSE, "Course ID {course_id} not found.")
    ELSE IF course_id \in S[student_id].registered_courses
    THEN Returns(S, C, FALSE, FALSE, "Student is already enrolled in {course.name}.")
    ELSE IF is_full(C[course_id])
    THEN Returns([S EXCEPT ![student_id] = Student_add_course(@, course_id)], C,
                 FALSE, FALSE, "Course {course.name} is full. No seats available.")
    ELSE IF HasConflictWithEnrolled(S, C, student_id, course_id)
    THEN Returns(S, C, FALSE, FALSE, "SCHEDULE CONFLICT")
    ELSE Returns([S EXCEPT ![student_id] = Student_add_course(@, course_id)],
                 [C EXCEPT ![course_id] = Course_add_student(@, student_id)],
                 TRUE, TRUE,
                 "Student {student.name} successfully enrolled in {course.name}.")

enroll_student_call(S, C, student_id, course_id) ==
    IF student_id \notin DOMAIN S
    THEN Returns(S, C, FALSE, FALSE, "Student ID {student_id} not found.")
    ELSE IF course_id \notin DOMAIN C
    THEN Returns(S, C, FALSE, FALSE, "Course ID {course_id} not found.")
    ELSE IF course_id \in S[student_id].registered_courses
    THEN Returns(S, C, FALSE, FALSE, "Student is already enrolled in {course.name}.")
    ELSE IF is_full(C[course_id])
    THEN Returns(S, C, FALSE, FALSE, "Course {course.name} is full. No seats available.")
    ELSE IF HasConflictWithEnrolled(S, C, student_id, course_id)
    THEN Returns(S, C, FALSE, FALSE, "SCHEDULE CONFLICT")
    ELSE Returns([S EXCEPT ![student_id] = Student_add_course(@, course_id)],
                 [C EXCEPT ![course_id] = Course_add_student(@, student_id)],
                 TRUE, TRUE,
                 "Student {student.name} successfully enrolled in {course.name}.")

drop_course_call_checking_course_set(S, C, student_id, course_id) ==
    IF student_id \notin DOMAIN S
    THEN Returns(S, C, FALSE, FALSE, "Student ID {student_id} not found.")
    ELSE IF course_id \notin DOMAIN C
    THEN Returns(S, C, FALSE, FALSE, "Course ID {course_id} not found.")
    ELSE IF student_id \notin C[course_id].enrolled_students
    THEN Returns(S, C, FALSE, FALSE, "Student is not enrolled in {course.name}.")
    ELSE Returns([S EXCEPT ![student_id] = Student_remove_course(@, course_id)],
                 [C EXCEPT ![course_id] = Course_remove_student(@, student_id)],
                 TRUE, TRUE,
                 "Student {student.name} successfully dropped {course.name}.")

drop_course_call(S, C, student_id, course_id) ==
    IF student_id \notin DOMAIN S
    THEN Returns(S, C, FALSE, FALSE, "Student ID {student_id} not found.")
    ELSE IF course_id \notin DOMAIN C
    THEN Returns(S, C, FALSE, FALSE, "Course ID {course_id} not found.")
    ELSE IF course_id \notin S[student_id].registered_courses
    THEN Returns(S, C, FALSE, FALSE, "Student is not enrolled in {course.name}.")
    ELSE Returns([S EXCEPT ![student_id] = Student_remove_course(@, course_id)],
                 [C EXCEPT ![course_id] = Course_remove_student(@, student_id)],
                 TRUE, TRUE,
                 "Student {student.name} successfully dropped {course.name}.")

(***************************************************************************)
(* The state machine: one action per public operation.                     *)
(***************************************************************************)
NoSnapshot ==
    [phase |-> "none", student_id |-> <<>>, course_id |-> <<>>,
     students |-> EmptyDict, courses |-> EmptyDict]

\* The last call: what its caller got (returned: it did not raise; ok, msg:
\* the (success flag, message) pair; value: what a query returned) and, as
\* history, the files whose writing failed during the call.
Outcome(op, args, r) ==
    [op |-> op, args |-> args, returned |-> r.returned, ok |-> r.ok, msg |-> r.msg,
     value |-> PyNone, unwritten |-> {}]

Apply_appending(op, args, r) ==
    /\ students' = r.students
    /\ courses' = r.courses
    /\ disk' = IF r.saved
               THEN [table \in DOMAIN disk |->
                        FileOf(disk[table].rows
                                   \o save_data(r.students, r.courses)[table].rows)]
               ELSE disk
    /\ result' = Outcome(op, args, r)

\* A save that keeps the rows of the old files whose ids the registry does
\* not know.
Apply_keeping_unknown_rows(op, args, r) ==
    LET new == save_data(r.students, r.courses)
        UnknownCourse(row) == row.course_id \notin DOMAIN r.courses
        UnknownStudent(row) == row.student_id \notin DOMAIN r.students
    IN /\ students' = r.students
       /\ courses' = r.courses
       /\ disk' = IF r.saved
                  THEN [new EXCEPT
                           !.courses = FileOf(@.rows \o SelectSeq(disk.courses.rows,
                                                                  UnknownCourse)),
                           !.students = FileOf(@.rows \o SelectSeq(disk.students.rows,
                                                                   UnknownStudent))]
                  ELSE disk
       /\ result' = Outcome(op, args, r)

\* What every operation does with the outcome r of its call: the registry
\* becomes r's, the files are rewritten when the call reached save_data.
Apply(op, args, r) ==
    /\ students' = r.students
    /\ courses' = r.courses
    /\ disk' = IF r.saved THEN save_data(r.students, r.courses) ELSE disk
    /\ result' = Outcome(op, args, r)

register_student(student_id, name) ==
    /\ Apply("register_student", <<student_id, name>>,
             register_student_call(students, courses, student_id, name))
    /\ held' = held
    /\ UNCHANGED auth_vars
    /\ snapshot' = NoSnapshot

add_course(course_id, name, instructor, max_students) ==
    /\ Apply("add_course", <<course_id, name, instructor, max_students>>,
             add_course_call(students, courses, course_id, name, instructor, max_students))
    /\ held' = held
    /\ UNCHANGED auth_vars
    /\ snapshot' = NoSnapshot

enroll_student(student_id, course_id) ==
    LET r == enroll_student_call(students, courses, student_id, course_id)
    IN /\ Apply("enroll_student", <<student_id, course_id>>, r)
       /\ held' = IF r.ok THEN held \cup {<<student_id, course_id>>} ELSE held
       /\ UNCHANGED auth_vars
       /\ snapshot' = IF r.ok
                      THEN [phase |-> "enrolled", student_id |-> student_id,
                            course_id |-> course_id,
                            students |-> students, courses |-> courses]
                      ELSE NoSnapshot

drop_course(student_id, course_id) ==
    LET r == drop_course_call(students, courses, student_id, course_id)
    IN /\ Apply("drop_course", <<student_id, course_id>>, r)
       /\ held' = IF r.ok THEN held \ {<<student_id, course_id>>} ELSE held
       /\ UNCHANGED auth_vars
       /\ snapshot' = IF snapshot.phase = "enrolled"
                         /\ snapshot.student_id = student_id
                         /\ snapshot.course_id = course_id
                      THEN [snapshot EXCEPT !.phase = IF r.ok THEN "dropped" ELSE "kept"]
                      ELSE NoSnapshot

(***************************************************************************)
(* The same operations on a directory whose files may refuse to be         *)
(* written, save_data called on its own, and a restart of the program.     *)
(***************************************************************************)
ApplyWriting_rolling_back(op, args, r, fault) ==
    LET failed == r.saved /\ Unwritten(fault) # {}
    IN /\ students' = IF failed THEN students ELSE r.students
       /\ courses' = IF failed THEN courses ELSE r.courses
       /\ disk' = IF r.saved THEN save_data_onto(disk, r.students, r.courses, fault)
                  ELSE disk
       /\ result' = [Outcome(op, args, r) EXCEPT
                         !.ok = r.ok /\ ~failed,
                         !.unwritten = IF r.saved THEN Unwritten(fault) ELSE {}]

ApplyWriting(op, args, r, fault) ==
    /\ students' = r.students
    /\ courses' = r.courses
    /\ disk' = IF r.saved THEN save_data_onto(disk, r.students, r.courses, fault)
               ELSE disk
    /\ result' = [Outcome(op, args, r) EXCEPT
                      !.unwritten = IF r.saved THEN Unwritten(fault) ELSE {}]

register_student_writing(student_id, name, fault) ==
    /\ ApplyWriting("register_student", <<student_id, name>>,
                    register_student_call(students, courses, student_id, name), fault)
    /\ held' = held
    /\ UNCHANGED auth_vars
    /\ snapshot' = NoSnapshot

add_course_writing(course_id, name, instructor, max_students, fault) ==
    /\ ApplyWriting("add_course", <<course_id, name, instructor, max_students>>,
                    add_course_call(students, courses, course_id, name, instructor,
                                    max_students), fault)
    /\ held' = held
    /\ UNCHANGED auth_vars
    /\ snapshot' = NoSnapshot

enroll_student_writing(student_id, course_id, fault) ==
    /\ ApplyWriting("enroll_student", <<student_id, course_id>>,
                    enroll_student_call(students, courses, student_id, course_id), fault)
    /\ held' = held
    /\ UNCHANGED auth_vars
    /\ snapshot' = NoSnapshot

drop_course_writing(student_id, course_id, fault) ==
    /\ ApplyWriting("drop_course", <<student_id, course_id>>,
                    drop_course_call(students, courses, student_id, course_id), fault)
    /\ held' = held
    /\ UNCHANGED auth_vars
    /\ snapshot' = NoSnapshot

\* system.save_data(): returns None, whatever became of the writes.
save_data_by_caller(fault) ==
    /\ disk' = save_data_onto(disk, students, courses, fault)
    /\ result' = [op |-> "save_data", args |-> <<>>, returned |-> TRUE, ok |-> TRUE,
                  msg |-> "", value |-> PyNone, unwritten |-> Unwritten(fault)]
    /\ UNCHANGED auth_vars
    /\ snapshot' = NoSnapshot
    /\ UNCHANGED <<students, courses, held>>

\* EnrollmentSystem(data_directory) anew on the same directory: the program
\* is started again.  load_data catches whatever the reading raises.
EnrollmentSystem ==
    /\ students' = load_data(disk).students
    /\ courses' = load_data(disk).courses
    /\ result' = [op |-> "EnrollmentSystem", args |-> <<>>, returned |-> TRUE,
                  ok |-> TRUE, msg |-> "", value |-> PyNone, unwritten |-> {}]
    /\ held' = {}
    /\ UNCHANGED auth_vars
    /\ snapshot' = NoSnapshot
    /\ UNCHANGED disk

(***************************************************************************)
(* auth.py: the accounts of AuthenticationSystem, and the login window of  *)
(* login_ui.py that signs in through it.  A username, a password and a     *)
(* student id are sequences of characters; User.student_id is None or a    *)
(* string.                                                                 *)
(***************************************************************************)
MinPasswordLen == 6

ROLE_STUDENT == "student"
ROLE_ADMIN == "admin"

\* hashlib.sha256(password.encode()).hexdigest(): equal passwords give equal
\* digests and the digest is never the password itself
_hash_password(password) == <<"sha256">> \o password

User(username, password_hash, role, student_id) ==
    [username |-> username, password_hash |-> password_hash, role |-> role,
     student_id |-> student_id]

check_password(user, password) == user.password_hash = _hash_password(password)

\* Python's truth value of an Optional[str]
Truthy(x) == x.t = "str" /\ x.v # <<>>

\* a == b between two Optional[str]
SameOptionalStr(a, b) == a.t = b.t /\ (a.t = "str" => a.v = b.v)

\* save_users: one row per user, a missing student id written as ''
save_users(U) ==
    [i \in 1..Len(IterationOrder(DOMAIN U)) |->
        LET user == U[IterationOrder(DOMAIN U)[i]]
        IN  [username |-> user.username, password_hash |-> user.password_hash,
             role |-> user.role,
             student_id |-> IF Truthy(user.student_id) THEN user.student_id.v ELSE <<>>]]

AdminName == <<"a", "d", "m", "i", "n">>
AdminPassword == <<"a", "d", "m", "i", "n", "1", "2", "3">>
StudentName == <<"s", "t", "u", "d", "e", "n", "t">>
StudentPassword == <<"s", "t", "u", "d", "e", "n", "t", "1", "2", "3">>
S001 == <<"S", "0", "0", "1">>

_create_default_accounts ==
    LET U == Put(Put(<<>>, AdminName,
                     User(AdminName, _hash_password(AdminPassword), ROLE_ADMIN, PyNone)),
                 StudentName,
                 User(StudentName, _hash_password(StudentPassword), ROLE_STUDENT, PyStr(S001)))
    IN  [users |-> U, saved |-> save_users(U)]

\* AuthenticationSystem(data_directory) where no users_auth.csv exists yet
AuthenticationSystem_init == _create_default_accounts

\* The messages are kept without the username or student id the code formats
\* into them; the arguments are in result.args.
AuthReturns(U, cur, saved, ok, msg) ==
    [users |-> U, current_user |-> cur, saved |-> saved, ok |-> ok, msg |-> msg]

HeldByAnyone(U, student_id) ==
    \E u \in DOMAIN U : SameOptionalStr(U[u].student_id, student_id)

register_user_call(U, cur, username, password, role, student_id) ==
    IF username = <<>> \/ password = <<>>
    THEN AuthReturns(U, cur, FALSE, FALSE, "Username and password cannot be empty.")
    ELSE IF username \in DOMAIN U
    THEN AuthReturns(U, cur, FALSE, FALSE, "Username already exists.")
    ELSE IF role = ROLE_STUDENT /\ ~Truthy(student_id)
    THEN AuthReturns(U, cur, FALSE, FALSE, "Student ID is required for student accounts.")
    ELSE IF Len(password) < MinPasswordLen
    THEN AuthReturns(U, cur, FALSE, FALSE, "Password must be at least 6 characters long.")
    ELSE IF Truthy(student_id) /\ HeldByAnyone(U, student_id)
    THEN AuthReturns(U, cur, FALSE, FALSE, "Student ID is already registered to another account.")
    ELSE AuthReturns(Put(U, username,
                         User(username, _hash_password(password), role, student_id)),
                     cur, TRUE, TRUE, "User registered successfully.")

\* AuthenticationSystem.login
login_call(U, cur, username, password) ==
    IF username = <<>> \/ password = <<>>
    THEN AuthReturns(U, cur, FALSE, FALSE, "Username and password cannot be empty.")
    ELSE IF username \notin DOMAIN U
    THEN AuthReturns(U, cur, FALSE, FALSE, "Invalid username or password.")
    ELSE IF ~check_password(U[username], password)
    THEN AuthReturns(U, cur, FALSE, FALSE, "Invalid username or password.")
    ELSE AuthReturns(U, PyStr(username), FALSE, TRUE, "Welcome!")

HeldByAnother(U, username, student_id) ==
    \E u \in DOMAIN U :
        /\ SameOptionalStr(U[u].student_id, PyStr(student_id))
        /\ U[u].username # username

LoginWindow_login_call_without_id_check(U, cur, username_entry, password_entry, student_id_entry) ==
    LET username == strip(username_entry)
        password == strip(password_entry)
        student_id == strip(student_id_entry)
        r == login_call(U, cur, username, password)
    IN  IF username = <<>> \/ password = <<>> \/ student_id = <<>>
        THEN AuthReturns(U, cur, FALSE, FALSE, "Please fill in all fields!")
        ELSE IF ~r.ok THEN r
        ELSE IF Truthy(U[username].student_id) THEN r
        ELSE AuthReturns([U EXCEPT ![username].student_id = PyStr(student_id)],
                         r.current_user, TRUE, TRUE, r.msg)

\* LoginWindow.login: the three entries are stripped; a signed-in account
\* that has no student id takes the typed one unless another account holds it
LoginWindow_login_call(U, cur, username_entry, password_entry, student_id_entry) ==
    LET username == strip(username_entry)
        password == strip(password_entry)
        student_id == strip(student_id_entry)
        r == login_call(U, cur, username, password)
    IN  IF username = <<>> \/ password = <<>> \/ student_id = <<>>
        THEN AuthReturns(U, cur, FALSE, FALSE, "Please fill in all fields!")
        ELSE IF ~r.ok THEN r
        ELSE IF Truthy(U[username].student_id) THEN r
        ELSE IF HeldByAnother(U, username, student_id)
        THEN AuthReturns(U, r.current_user, FALSE, FALSE,
                         "Student ID is already registered to another account.")
        ELSE AuthReturns([U EXCEPT ![username].student_id = PyStr(student_id)],
                         r.current_user, TRUE, TRUE, r.msg)

ApplyAuth(op, args, r) ==
    /\ users' = r.users
    /\ current_user' = r.current_user
    /\ users_auth' = IF r.saved THEN save_users(r.users) ELSE users_auth
    /\ result' = [op |-> op, args |-> args, returned |-> TRUE, ok |-> r.ok,
                  msg |-> r.msg, value |-> PyNone, unwritten |-> {}]

register_user(username, password, role, student_id) ==
    /\ ApplyAuth("register_user", <<username, password, role, student_id>>,
                 register_user_call(users, current_user, username, password, role, student_id))
    /\ UNCHANGED <<students, courses, disk, held, snapshot>>

LoginWindow_login(username_entry, password_entry, student_id_entry) ==
    /\ ApplyAuth("LoginWindow.login", <<username_entry, password_entry, student_id_entry>>,
                 LoginWindow_login_call(users, current_user, username_entry,
                                        password_entry, student_id_entry))
    /\ UNCHANGED <<students, courses, disk, held, snapshot>>

(***************************************************************************)
(* The arguments the callers pass.                                         *)
(***************************************************************************)
S1 == <<"S", "1">>
S2 == <<"S", "2">>
C1 == <<"C", "1">>
C2 == <<"C", "2">>

StudentIdArgs == {<<>>, S1, S2}
StudentNameArgs == {"", "Ann", "Bob"}
CourseIdArgs == {<<>>, C1, C2}
MaxStudentsArgs ==
    {PyInt(n) : n \in (0 - 1)..MaxSeats}
        \cup {PyStr(str(MaxSeats)), PyStr(<<"a", "b", "c">>), PyNone}
\* <<course_id, name, instructor, max_students>>: every id with every
\* max_students, and every id with a name or an instructor left empty.
AddCourseArgs ==
    (CourseIdArgs \X {"Algorithms"} \X {"Dr. Smith"} \X MaxStudentsArgs)
        \cup (CourseIdArgs \X {"", "Algorithms"} \X {"", "Dr. Smith"} \X {PyInt(1)})

NoCall ==
    [op |-> "none", args |-> <<>>, returned |-> TRUE, ok |-> TRUE, msg |-> "",
     value |-> PyNone, unwritten |-> {}]

\* EnrollmentSystem(data_directory) on a directory holding `files`.
Construct(files) ==
    /\ disk = files
    /\ students = load_data(files).students
    /\ courses = load_data(files).courses
    /\ result = NoCall
    /\ held = {}
    /\ snapshot = NoSnapshot
    /\ users = AuthenticationSystem_init.users
    /\ users_auth = AuthenticationSystem_init.saved
    /\ current_user = PyNone

NoFiles == [courses |-> NoFile, students |-> NoFile, enrollments |-> NoFile]

\* An empty registry: construction on a directory without files.
Init == Construct(NoFiles)

Next ==
    \/ \E student_id \in StudentIdArgs, name \in StudentNameArgs :
          register_student(student_id, name)
    \/ \E a \in AddCourseArgs : add_course(a[1], a[2], a[3], a[4])
    \/ \E student_id \in StudentIdArgs, course_id \in CourseIdArgs :
          enroll_student(student_id, course_id)
    \/ \E student_id \in StudentIdArgs, course_id \in CourseIdArgs :
          drop_course(student_id, course_id)

Spec == Init /\ [][Next]_vars

(***************************************************************************)
(* Construction on a directory that already holds courses.csv and          *)
(* students.csv.  The two files are independent of each other: the         *)
(* memberships they list need not agree.                                   *)
(***************************************************************************)
MWF == <<"M", "W", "F">>
MW == <<"M", "W">>
Tue == <<"T">>
From0900To1015 == <<"9", ":", "0", "0", "-", "1", "0", ":", "1", "5">>
From1000To1100 == <<"1", "0", ":", "0", "0", "-", "1", "1", ":", "0", "0">>

SetsOf(ids) == {join(";", IterationOrder(sub)) : sub \in SUBSET ids}

FileCourseRows(course_id, schedules) ==
    {[course_id |-> course_id, name |-> "Algorithms", instructor |-> "Dr. Smith",
      max_students |-> PyStr(str(n)), enrolled_students |-> cell,
      days |-> sch[1], time |-> sch[2], location |-> "Hall 1"] :
        n \in 1..MaxSeats, cell \in SetsOf({S1, S2}), sch \in schedules}

FileStudentRows(student_id) ==
    {[student_id |-> student_id, name |-> "Ann", registered_courses |-> cell] :
        cell \in SetsOf({C1, C2})}

LoadableFiles ==
    {[courses |-> FileOf(<<r1, r2>>), students |-> FileOf(<<q1, q2>>),
      enrollments |-> NoFile] :
        r1 \in FileCourseRows(C1, {<<MWF, From0900To1015>>}),
        r2 \in FileCourseRows(C2, {<<MW, From1000To1100>>, <<Tue, From0900To1015>>}),
        q1 \in FileStudentRows(S1),
        q2 \in FileStudentRows(S2)}

InitLoad == \E files \in LoadableFiles : Construct(files)

NextLoad ==
    \/ \E student_id \in StudentIdArgs, course_id \in CourseIdArgs :
          enroll_student(student_id, course_id)
    \/ \E student_id \in StudentIdArgs, course_id \in CourseIdArgs :
          drop_course(student_id, course_id)

SpecLoad == InitLoad /\ [][NextLoad]_vars

(***************************************************************************)
(* enrollment_system.py: get_formatted_schedule.                           *)
(***************************************************************************)
\* The characters U+0020..U+005F and U+0061..U+007A in code point order.
UpToUnderscore ==
    <<
      " ", "!", "\"", "#", "$", "%", "&", "'", "(", ")", "*", "+",
      ",", "-", ".", "/", "0", "1", "2", "3", "4", "5", "6", "7",
      "8", "9", ":", ";", "<", "=", ">", "?", "@", "A", "B", "C",
      "D", "E", "F", "G", "H", "I", "J", "K", "L", "M", "N", "O",
      "P", "Q", "R", "S", "T", "U", "V", "W", "X", "Y", "Z", "[",
      "\\", "]", "^", "_">>

LowerCase ==
    <<
      "a", "b", "c", "d", "e", "f", "g", "h", "i", "j", "k", "l",
      "m", "n", "o", "p", "q", "r", "s", "t", "u", "v", "w", "x",
      "y", "z">>

\* ord(ch) of one of these characters
ord(ch) ==
    IF ch \in Range(LowerCase)
    THEN 96 + CHOOSE i \in DOMAIN LowerCase : LowerCase[i] = ch
    ELSE 31 + CHOOSE i \in DOMAIN UpToUnderscore : UpToUnderscore[i] = ch

\* a < b on str: the first differing character decides by code point, a
\* proper prefix is smaller.
str_lt(a, b) ==
    \E k \in 1..Len(b) :
        /\ \A j \in 1..(k - 1) : j <= Len(a) /\ a[j] = b[j]
        /\ (k > Len(a) \/ ord(a[k]) < ord(b[k]))

\* sorted(courses, key=lambda c: c.time): stable, the keys compared as str.
RECURSIVE sorted_by_time(_)
sorted_by_time(cs) ==
    IF cs = <<>> THEN <<>>
    ELSE LET last == cs[Len(cs)]
             rest == sorted_by_time(SubSeq(cs, 1, Len(cs) - 1))
             before == {i \in DOMAIN rest : str_lt(last.time, rest[i].time)}
             at == IF before = {} THEN Len(rest) + 1
                   ELSE CHOOSE i \in before : \A j \in before : i <= j
         IN SubSeq(rest, 1, at - 1) \o <<last>> \o SubSeq(rest, at, Len(rest))

\* 'Th' in days
contains_Th(days) ==
    \E i \in 1..(Len(days) - 1) : days[i] = "T" /\ days[i + 1] = "h"

\* days.replace('Th', '')
RECURSIVE replace_Th(_)
replace_Th(days) ==
    IF Len(days) < 2 THEN days
    ELSE IF days[1] = "T" /\ days[2] = "h" THEN replace_Th(SubSeq(days, 3, Len(days)))
    ELSE <<days[1]>> \o replace_Th(Tail(days))

day_order == <<"M", "T", "W", "Th", "F">>

\* Concatenation of a sequence of sequences.
RECURSIVE Concat(_)
Concat(ss) == IF ss = <<>> THEN <<>> ELSE Head(ss) \o Concat(Tail(ss))

\* The filling loop without its 'Th' branch: every character on its own.
AppendedTo_by_letter(day, course) ==
    Concat([i \in DOMAIN course.days |->
               IF course.days[i] = day THEN <<course>> ELSE <<>>])

\* What one course appends to schedule_by_day[day]: itself once under 'Th'
\* when its days hold 'Th', and once per remaining character equal to day.
AppendedTo(day, course) ==
    IF day = "Th"
    THEN IF contains_Th(course.days) THEN <<course>> ELSE <<>>
    ELSE LET days == IF contains_Th(course.days)
                     THEN replace_Th(course.days) ELSE course.days
         IN Concat([i \in DOMAIN days |-> IF days[i] = day THEN <<course>> ELSE <<>>])

NoSchedule(text) ==
    [text |-> text, total |-> 0, days |-> [day \in Range(day_order) |-> <<>>]]

\* The returned text: its kind, the Total Courses line and, per weekday box,
\* the rows in the order in which they are written.
get_formatted_schedule_call(S, C, student_id) ==
    IF student_id \notin DOMAIN S THEN NoSchedule("Student not found.")
    ELSE IF S[student_id].registered_courses = {} THEN NoSchedule("No courses enrolled.")
    ELSE LET ids == IterationOrder(S[student_id].registered_courses)
             scheduled_courses ==
                 Concat([i \in DOMAIN ids |->
                            IF ids[i] \in DOMAIN C
                               /\ C[ids[i]].days # <<>> /\ C[ids[i]].time # <<>>
                            THEN <<C[ids[i]]>> ELSE <<>>])
             schedule_by_day(day) ==
                 Concat([i \in DOMAIN scheduled_courses |->
                            AppendedTo(day, scheduled_courses[i])])
         IN IF scheduled_courses = <<>>
            THEN NoSchedule("No courses with schedule information.")
            ELSE [text |-> "STUDENT COURSE SCHEDULE",
                  total |-> Len(scheduled_courses),
                  days |-> [day \in Range(day_order) |->
                               sorted_by_time(schedule_by_day(day))]]

(***************************************************************************)
(* Queries: they change nothing and hand a value to their caller.          *)
(***************************************************************************)
Answer(op, args, value) ==
    [op |-> op, args |-> args, returned |-> TRUE, ok |-> TRUE, msg |-> "",
     value |-> value, unwritten |-> {}]

\* courses[course_id].has_schedule_conflict(courses[other_id]).  Everything
\* that can raise in it sits inside the try of _times_overlap.
Course_has_schedule_conflict(course_id, other_id) ==
    /\ course_id \in DOMAIN courses
    /\ other_id \in DOMAIN courses
    /\ result' = Answer("has_schedule_conflict", <<course_id, other_id>>,
                        PyBool(has_schedule_conflict(courses[course_id],
                                                     courses[other_id])))
    /\ UNCHANGED auth_vars
    /\ snapshot' = NoSnapshot
    /\ UNCHANGED <<students, courses, disk, held>>

get_formatted_schedule(student_id) ==
    /\ result' = Answer("get_formatted_schedule", <<student_id>>,
                        get_formatted_schedule_call(students, courses, student_id))
    /\ UNCHANGED auth_vars
    /\ snapshot' = NoSnapshot
    /\ UNCHANGED <<students, courses, disk, held>>

(***************************************************************************)
(* Two courses with schedules of every shape, read from courses.csv, and   *)
(* one student who either still has no course or is listed in both.        *)
(***************************************************************************)
Thu == <<"T", "h">>
ThF == <<"T", "h", "F">>
MT == <<"M", "T">>
TTh == <<"T", "T", "h">>
From1015To1130 == <<"1", "0", ":", "1", "5", "-", "1", "1", ":", "3", "0">>
TimeWithoutDash == <<"9", ":", "0", "0">>
TimeWithTwoDashes ==
    <<"9", ":", "0", "0", "-", "1", "0", ":", "1", "5", "-", "1", "1", ":", "3", "0">>
TimeWithoutColons == <<"9", "0", "0", "-", "1", "0", "1", "5">>
TimeWithLetters == <<"9", ":", "x", "x", "-", "1", "0", ":", "1", "5">>
TimeWithSign == <<"+", "9", ":", "0", "0", "-", "1", "0", ":", "1", "5">>

SchedulesOfC1 ==
    {<<>>, Tue, MT, MWF} \X {<<>>, From0900To1015, TimeWithoutDash, TimeWithSign}
SchedulesOfC2 ==
    {Tue, Thu, ThF, TTh, MW}
        \X {From0900To1015, From1000To1100, From1015To1130,
            TimeWithTwoDashes, TimeWithoutColons, TimeWithLetters}

ScheduledCourseRow(course_id, name, members, sch) ==
    [course_id |-> course_id, name |-> name, instructor |-> "Dr. Smith",
     max_students |-> PyStr(str(MaxSeats)), enrolled_students |-> members,
     days |-> sch[1], time |-> sch[2], location |-> "Hall 1"]

ScheduleFiles ==
    {[courses |-> FileOf(<<ScheduledCourseRow(C1, "Algorithms", members, sch1),
                           ScheduledCourseRow(C2, "Biology", members, sch2)>>),
      students |-> FileOf(<<[student_id |-> S1, name |-> "Ann",
                             registered_courses |->
                                 IF members = <<>> THEN <<>>
                                 ELSE join(";", <<C1, C2>>)]>>),
      enrollments |-> NoFile] :
        members \in {<<>>, S1}, sch1 \in SchedulesOfC1, sch2 \in SchedulesOfC2}

InitSchedule == \E files \in ScheduleFiles : Construct(files)

NextSchedule ==
    \/ \E course_id \in CourseIdArgs, other_id \in CourseIdArgs :
          Course_has_schedule_conflict(course_id, other_id)
    \/ \E student_id \in StudentIdArgs, course_id \in CourseIdArgs :
          enroll_student(student_id, course_id)
    \/ \E student_id \in {S1}, course_id \in {C1, C2} :
          drop_course(student_id, course_id)
    \/ \E student_id \in StudentIdArgs : get_formatted_schedule(student_id)

SpecSchedule == InitSchedule /\ [][NextSchedule]_vars

(***************************************************************************)
(* An empty registry used with ids that hold the ';' of the membership     *)
(* cells, saved and started again.                                         *)
(***************************************************************************)
S1_S2 == <<"S", "1", ";", "S", "2">>
C1_C2 == <<"C", "1", ";", "C", "2">>

NextRestart ==
    \/ \E student_id \in {S1, S1_S2}, name \in {"Ann", "Bob"} :
          register_student(student_id, name)
    \/ \E course_id \in {C1, C1_C2}, max_students \in {PyInt(0), PyInt(MaxSeats)} :
          add_course(course_id, "Algorithms", "Dr. Smith", max_students)
    \/ \E student_id \in {S1, S1_S2}, course_id \in {C1, C1_C2} :
          enroll_student(student_id, course_id)
    \/ \E student_id \in {S1, S1_S2}, course_id \in {C1, C1_C2} :
          drop_course(student_id, course_id)
    \/ save_data_by_caller(NoFault)
    \/ EnrollmentSystem

SpecRestart == Init /\ [][NextRestart]_vars

(***************************************************************************)
(* An empty registry on a directory whose files may refuse to be written.  *)
(***************************************************************************)
NextWriteFail ==
    \/ \E student_id \in {<<>>, S1}, fault \in Faults :
          register_student_writing(student_id, "Ann", fault)
    \/ \E course_id \in {<<>>, C1}, fault \in Faults :
          add_course_writing(course_id, "Algorithms", "Dr. Smith", PyInt(MaxSeats), fault)
    \/ \E student_id \in {S1}, course_id \in {C1}, fault \in Faults :
          enroll_student_writing(student_id, course_id, fault)
    \/ \E student_id \in {S1}, course_id \in {C1}, fault \in Faults :
          drop_course_writing(student_id, course_id, fault)
    \/ \E fault \in Faults : save_data_by_caller(fault)
    \/ add_course_writing(C2, "Biology", "Dr. Jones", PyInt(MaxSeats), NoFault)
    \/ enroll_student_writing(S1, C2, NoFault)
    \/ EnrollmentSystem

SpecWriteFail == Init /\ [][NextWriteFail]_vars

(***************************************************************************)
(* Construction on files some rows of which cannot be read: a max_students *)
(* cell that is no number, a row cut short, bytes that are not UTF-8.      *)
(***************************************************************************)
C3 == <<"C", "3">>
S3 == <<"S", "3">>

RowsCourseRow(course_id, members, max_students) ==
    [course_id |-> course_id, name |-> "Algorithms", instructor |-> "Dr. Smith",
     max_students |-> max_students, enrolled_students |-> members,
     days |-> <<>>, time |-> <<>>, location |-> "Hall 1"]

RowsStudentRow(student_id, registered) ==
    [student_id |-> student_id, name |-> "Ann", registered_courses |-> registered]

MaxStudentsCells == {PyStr(str(MaxSeats)), PyStr(<<"a", "b", "c">>), PyNone}

\* The max_students cells of the three rows: any mix of cells when the
\* header names the column, no cell in any row when it does not.
MaxStudentsColumns ==
    {<<PyStr(str(MaxSeats)), cell2, cell3>> :
        cell2 \in MaxStudentsCells, cell3 \in MaxStudentsCells}
        \cup {<<NoColumn, NoColumn, NoColumn>>}

RowsFiles ==
    {[courses |-> [exists |-> TRUE,
                   rows |-> <<RowsCourseRow(C1, S1, column[1]),
                              RowsCourseRow(C2, <<>>, column[2]),
                              RowsCourseRow(C3, <<>>, column[3])>>,
                   undecodable |-> bad_courses],
      students |-> [exists |-> TRUE,
                    rows |-> <<RowsStudentRow(S1, C1), RowsStudentRow(S2, <<>>),
                               RowsStudentRow(S3, <<>>)>>,
                    undecodable |-> bad_students],
      enrollments |-> NoFile] :
        column \in MaxStudentsColumns, bad_courses \in 0..3, bad_students \in 0..3}

InitRows == \E files \in RowsFiles : Construct(files)

NextRows ==
    \/ \E student_id \in {S1, S3}, course_id \in {C1, C3} :
          enroll_student(student_id, course_id)
    \/ \E student_id \in {S1, S3}, course_id \in {C1, C3} :
          drop_course(student_id, course_id)
    \/ EnrollmentSystem

SpecRows == InitRows /\ [][NextRows]_vars

(***************************************************************************)
(* Construction on files that another program wrote: any capacity from 0   *)
(* up, any members, memberships listed on one side only.  The methods of   *)
(* Course are then called on the loaded courses by a caller of its own.    *)
(***************************************************************************)
ForeignFiles ==
    {[courses |-> FileOf(<<RowsCourseRow(C1, members, PyStr(str(n)))>>),
      students |-> FileOf(<<RowsStudentRow(S1, registered)>>),
      enrollments |-> NoFile] :
        n \in 0..MaxSeats, members \in SetsOf({S1, S2}), registered \in {<<>>, C1, C2}}

InitForeign == \E files \in ForeignFiles : Construct(files)

\* courses[course_id].add_student(student_id)
Course_add_student_by_caller(course_id, student_id) ==
    /\ course_id \in DOMAIN courses
    /\ courses' = [courses EXCEPT ![course_id] = Course_add_student(@, student_id)]
    /\ result' = Answer("add_student", <<course_id, student_id>>,
                        PyBool(Course_add_student_returned(courses[course_id],
                                                           student_id)))
    /\ UNCHANGED auth_vars
    /\ snapshot' = NoSnapshot
    /\ UNCHANGED <<students, disk, held>>

\* courses[course_id].remove_student(student_id)
Course_remove_student_by_caller(course_id, student_id) ==
    /\ course_id \in DOMAIN courses
    /\ courses' = [courses EXCEPT ![course_id] = Course_remove_student(@, student_id)]
    /\ result' = Answer("remove_student", <<course_id, student_id>>, PyNone)
    /\ UNCHANGED auth_vars
    /\ snapshot' = NoSnapshot
    /\ UNCHANGED <<students, disk, held>>

NextForeign ==
    \/ \E course_id \in {C1}, student_id \in {S1, S2, S3} :
          Course_add_student_by_caller(course_id, student_id)
    \/ \E course_id \in {C1}, student_id \in {S1, S2, S3} :
          Course_remove_student_by_caller(course_id, student_id)
    \/ EnrollmentSystem

SpecForeign == InitForeign /\ [][NextForeign]_vars

(***************************************************************************)
(* gui_final.py: the handlers of the Enroll and Drop buttons.  student_id  *)
(* is self.current_user.student_id.                                        *)
(***************************************************************************)
CourseLimit == 6
MaxCourses == 7      \* courses offered in the window

\* The limit test written with > in place of >=.
enroll_course_call_limit_exclusive(S, C, student_id, course_id) ==
    IF student_id \notin DOMAIN S
    THEN Returns(S, C, FALSE, FALSE, "Student not found in system")
    ELSE IF Cardinality(S[student_id].registered_courses) > CourseLimit
    THEN Returns(S, C, FALSE, FALSE,
                 "You cannot enroll in more than 6 courses per semester.")
    ELSE enroll_student_call(S, C, student_id, course_id)

\* enroll_course(course_id): what the message box shows stands for what the
\* handler hands back.
enroll_course_call(S, C, student_id, course_id) ==
    IF student_id \notin DOMAIN S
    THEN Returns(S, C, FALSE, FALSE, "Student not found in system")
    ELSE IF Cardinality(S[student_id].registered_courses) >= CourseLimit
    THEN Returns(S, C, FALSE, FALSE,
                 "You cannot enroll in more than 6 courses per semester.")
    ELSE enroll_student_call(S, C, student_id, course_id)

RegistrationSystemGUI_enroll_course(student_id, course_id) ==
    /\ Apply("gui.enroll_course", <<student_id, course_id>>,
             enroll_course_call(students, courses, student_id, course_id))
    /\ held' = held
    /\ UNCHANGED auth_vars
    /\ snapshot' = NoSnapshot

\* drop_course(course_id): nothing happens when the user answers No.
RegistrationSystemGUI_drop_course(student_id, course_id, confirmed) ==
    /\ Apply("gui.drop_course", <<student_id, course_id>>,
             IF confirmed
             THEN drop_course_call(students, courses, student_id, course_id)
             ELSE Returns(students, courses, FALSE, FALSE, ""))
    /\ held' = held
    /\ UNCHANGED auth_vars
    /\ snapshot' = NoSnapshot

\* The window opens on the files of an earlier run: MaxCourses courses with
\* seats and without schedule, the student in none or in all of them (the
\* registry itself sets no limit).
GuiCourseId(i) == <<"G", DigitChar(i)>>
GuiCourseIds == {GuiCourseId(i) : i \in 1..MaxCourses}

GuiFiles ==
    {[courses |-> FileOf([i \in 1..MaxCourses |->
                            RowsCourseRow(GuiCourseId(i),
                                          IF i <= n THEN S1 ELSE <<>>,
                                          PyStr(str(MaxSeats)))]),
      students |-> FileOf(<<RowsStudentRow(S1,
                                join(";", [i \in 1..n |-> GuiCourseId(i)]))>>),
      enrollments |-> NoFile] : n \in {0, MaxCourses}}

InitGUI == \E files \in GuiFiles : Construct(files)

NextGUI ==
    \/ \E student_id \in {S1, S2}, course_id \in GuiCourseIds :
          RegistrationSystemGUI_enroll_course(student_id, course_id)
    \/ \E student_id \in {S1, S2}, course_id \in GuiCourseIds, confirmed \in BOOLEAN :
          RegistrationSystemGUI_drop_course(student_id, course_id, confirmed)

SpecGUI == InitGUI /\ [][NextGUI]_vars

(***************************************************************************)
(* The accounts: registrations and login-window logins from the default    *)
(* accounts.                                                               *)
(***************************************************************************)
Bob == <<"b", "o", "b">>
Eve == <<"e", "v", "e">>
Secret == <<"s", "e", "c", "r", "e", "t">>
ShortPassword == <<"a", "b", "c">>
S002 == <<"S", "0", "0", "2">>
S003 == <<"S", "0", "0", "3">>

\* <<username, password, role, student_id>>: every username with every role
\* and id under a password that is long enough, and the passwords that are
\* refused
RegisterUserArgs ==
    ({<<>>, AdminName, Bob} \X {Secret} \X {ROLE_STUDENT, ROLE_ADMIN}
        \X {PyNone, PyStr(<<>>), PyStr(S001), PyStr(S002)})
        \cup ({Bob} \X {<<>>, ShortPassword} \X {ROLE_ADMIN} \X {PyNone, PyStr(S002)})

\* <<username_entry, password_entry, student_id_entry>>, as typed: Eve has no
\* account
LoginEntries ==
    ({<<>>, AdminName, <<" ">> \o Bob, Eve} \X {AdminPassword, Secret \o <<" ">>}
        \X {<<>>, S001, S002 \o <<" ">>, S003})
        \cup ({StudentName} \X {<<" ">>, StudentPassword} \X {S003})

NextAuth ==
    \/ \E a \in RegisterUserArgs : register_user(a[1], a[2], a[3], a[4])
    \/ \E e \in LoginEntries : LoginWindow_login(e[1], e[2], e[3])

SpecAuth == Init /\ [][NextAuth]_vars

(***************************************************************************)
(* The error taxonomy of the specification, read off the returned message. *)
(***************************************************************************)
Kind(msg) ==
    CASE msg \in {"Student ID and name cannot be empty.",
                  "Course ID, name, and instructor cannot be empty.",
                  "Maximum students must be a positive number.",
                  "Maximum students must be a valid number."} -> "InvalidInput"
      [] msg \in {"Student ID {student_id} already exists.",
                  "Course ID {course_id} already exists."} -> "DuplicateId"
      [] msg \in {"Student ID {student_id} not found.",
                  "Course ID {course_id} not found."} -> "NotFound"
      [] msg = "Student is already enrolled in {course.name}." -> "AlreadyEnrolled"
      [] msg = "Course {course.name} is full. No seats available." -> "CourseFull"
      [] msg = "SCHEDULE CONFLICT" -> "ScheduleConflict"
      [] msg = "Student is not enrolled in {course.name}." -> "NotEnrolled"
      [] OTHER -> "None"

Failed(kind) == result.returned /\ ~result.ok /\ Kind(result.msg) = kind
Failed1(kind) == result'.returned /\ ~result'.ok /\ Kind(result'.msg) = kind

\* The step is the call op(args).
Called(op, args) == result'.op = op /\ result'.args = args

(***************************************************************************)
(* C1.  From an empty registry, after any sequence of register_student,    *)
(* add_course, enroll_student and drop_course calls, every course has      *)
(* |enrolled_students| <= max_students.                                    *)
(***************************************************************************)
C1_Capacity ==
    \A c \in DOMAIN courses :
        Cardinality(courses[c].enrolled_students) <= courses[c].max_students

\* A non-enrolled student has just been refused by a course that is at capacity.
C1_Witness ==
    /\ result.op = "enroll_student"
    /\ Failed("CourseFull")
    /\ LET c == courses[result.args[2]]
       IN /\ Cardinality(c.enrolled_students) = c.max_students
          /\ result.args[1] \notin c.enrolled_students

(***************************************************************************)
(* C2.  From an empty registry, after any sequence of the four calls:      *)
(* c is in s.registered_courses iff s is in c.enrolled_students, every     *)
(* registered course id is a key of courses and every enrolled student id  *)
(* is a key of students.                                                   *)
(***************************************************************************)
C2_Bidirectional ==
    /\ \A s \in DOMAIN students, c \in DOMAIN courses :
          c \in students[s].registered_courses <=> s \in courses[c].enrolled_students
    /\ \A s \in DOMAIN students : students[s].registered_courses \subseteq DOMAIN courses
    /\ \A c \in DOMAIN courses : courses[c].enrolled_students \subseteq DOMAIN students

\* A drop has succeeded while another enrollment is still in place.
C2_Witness ==
    /\ result.op = "drop_course" /\ result.ok
    /\ \E s \in DOMAIN students : students[s].registered_courses # {}

(***************************************************************************)
(* The five conditions of enroll(s, c) as the specification words them,    *)
(* on the registry before the call.                                        *)
(***************************************************************************)
KnownStudent(s) == s \in DOMAIN students
KnownCourse(c) == c \in DOMAIN courses
AlreadyRegistered(s, c) == c \in students[s].registered_courses
AtCapacity(c) == Cardinality(courses[c].enrolled_students) >= courses[c].max_students
ConflictsWithEnrolled(s, c) ==
    \E e \in students[s].registered_courses \cap DOMAIN courses :
        has_schedule_conflict(courses[c], courses[e])

FirstEnrollFailure(s, c) ==
    IF ~KnownStudent(s) THEN "Student ID {student_id} not found."
    ELSE IF ~KnownCourse(c) THEN "Course ID {course_id} not found."
    ELSE IF AlreadyRegistered(s, c) THEN "Student is already enrolled in {course.name}."
    ELSE IF AtCapacity(c) THEN "Course {course.name} is full. No seats available."
    ELSE IF ConflictsWithEnrolled(s, c) THEN "SCHEDULE CONFLICT"
    ELSE ""

(***************************************************************************)
(* C3.  enroll_student(s, c) returns the failure of the first check that   *)
(* does not pass, in the order unknown student (NotFound), unknown course  *)
(* (NotFound), already registered (AlreadyEnrolled), course full           *)
(* (CourseFull), schedule conflict (ScheduleConflict); so an enrolled      *)
(* student asking again for a now full course gets AlreadyEnrolled and a   *)
(* non-enrolled student asking for a full, conflicting course CourseFull.  *)
(***************************************************************************)
C3_CheckOrder ==
    [][\A s \in StudentIdArgs, c \in CourseIdArgs :
          (Called("enroll_student", <<s, c>>) /\ FirstEnrollFailure(s, c) # "")
              => /\ result'.returned /\ ~result'.ok
                 /\ result'.msg = FirstEnrollFailure(s, c)
                 /\ (KnownStudent(s) /\ KnownCourse(c) /\ AlreadyRegistered(s, c)
                     /\ AtCapacity(c)) => Failed1("AlreadyEnrolled")
                 /\ (KnownStudent(s) /\ KnownCourse(c) /\ ~AlreadyRegistered(s, c)
                     /\ AtCapacity(c) /\ ConflictsWithEnrolled(s, c))
                        => Failed1("CourseFull")]_vars

\* A non-enrolled student was refused with CourseFull by a full course that
\* also conflicts with a course the student is enrolled in.
C3_Witness ==
    /\ result.op = "enroll_student"
    /\ Failed("CourseFull")
    /\ ~AlreadyRegistered(result.args[1], result.args[2])
    /\ ConflictsWithEnrolled(result.args[1], result.args[2])

(***************************************************************************)
(* C4.  enroll_student(s, c) succeeds exactly when the five checks pass,   *)
(* the conflict check being made against the courses s was enrolled in     *)
(* before the call; on success c joins s.registered_courses, s joins       *)
(* c.enrolled_students and nothing else in memory changes.                 *)
(***************************************************************************)
C4_EnrollEffect ==
    [][\A s \in StudentIdArgs, c \in CourseIdArgs :
          Called("enroll_student", <<s, c>>)
              => /\ result'.returned
                 /\ result'.ok <=> /\ KnownStudent(s) /\ KnownCourse(c)
                                   /\ ~AlreadyRegistered(s, c)
                                   /\ ~AtCapacity(c)
                                   /\ ~ConflictsWithEnrolled(s, c)
                 /\ result'.ok =>
                      /\ students' = [students EXCEPT
                                         ![s].registered_courses = @ \cup {c}]
                      /\ courses' = [courses EXCEPT
                                         ![c].enrolled_students = @ \cup {s}]]_vars

\* A student holding another scheduled course has been enrolled in a course
\* that overlaps with itself (its own schedule would conflict with it).
C4_Witness ==
    /\ result.op = "enroll_student" /\ result.ok
    /\ LET s == result.args[1]
           c == result.args[2]
       IN /\ has_schedule_conflict(courses[c], courses[c])
          /\ \E e \in students[s].registered_courses \ {c} :
                e \in DOMAIN courses /\ courses[e].days # <<>>

(***************************************************************************)
(* C5 as stated.  Whenever enroll_student(s, c) succeeds, the immediately  *)
(* following drop_course(s, c) succeeds and leaves the whole in-memory     *)
(* state, s.registered_courses and c.enrolled_students included, equal to  *)
(* what it was before the enroll.                                          *)
(***************************************************************************)
C5_RoundTripRestoresAll ==
    /\ snapshot.phase # "kept"
    /\ snapshot.phase = "dropped"
          => students = snapshot.students /\ courses = snapshot.courses

(***************************************************************************)
(* C5 amended.  Whenever enroll_student(s, c) succeeds, the immediately    *)
(* following drop_course(s, c) succeeds, leaves the students map as it was *)
(* before the enroll, and leaves the courses map as it was except that s   *)
(* is not in c.enrolled_students: the courses map is restored exactly when *)
(* s was not in c.enrolled_students before the enroll.                     *)
(***************************************************************************)
C5_RoundTrip ==
    /\ snapshot.phase # "kept"
    /\ snapshot.phase = "dropped"
          => LET s == snapshot.student_id
                 c == snapshot.course_id
             IN /\ students = snapshot.students
                /\ courses = [snapshot.courses EXCEPT ![c].enrolled_students = @ \ {s}]
                /\ (courses = snapshot.courses)
                      <=> s \notin snapshot.courses[c].enrolled_students

\* An enroll followed at once by the drop of the same pair, for a student
\* who holds another course and was not listed by the course before.
C5_Witness ==
    /\ snapshot.phase = "dropped"
    /\ result.op = "drop_course" /\ result.ok
    /\ snapshot.student_id \notin
          snapshot.courses[snapshot.course_id].enrolled_students
    /\ students[snapshot.student_id].registered_courses # {}

(***************************************************************************)
(* C6.  Once enroll_student(s, c) has succeeded and as long as no          *)
(* drop_course(s, c) has succeeded since, every enroll_student(s, c)       *)
(* returns AlreadyEnrolled and leaves the students, the courses and the    *)
(* files as they are, whatever calls come in between.                      *)
(***************************************************************************)
C6_EnrollTwice ==
    [][\A s \in StudentIdArgs, c \in CourseIdArgs :
          (<<s, c>> \in held /\ Called("enroll_student", <<s, c>>))
              => /\ Failed1("AlreadyEnrolled")
                 /\ students' = students
                 /\ courses' = courses
                 /\ disk' = disk]_vars

\* A repeated enroll was refused with AlreadyEnrolled after the course had
\* filled up and the student had taken part in other calls.
C6_Witness ==
    /\ result.op = "enroll_student"
    /\ Failed("AlreadyEnrolled")
    /\ <<result.args[1], result.args[2]>> \in held
    /\ AtCapacity(result.args[2])
    /\ Cardinality(held) > 1

(***************************************************************************)
(* C7 as stated.  drop_course(s, c) fails with NotFound when s or c is     *)
(* unknown, fails with NotEnrolled exactly when s is not in                *)
(* c.enrolled_students, and otherwise removes c from s.registered_courses  *)
(* and s from c.enrolled_students, also in a registry loaded from files.   *)
(***************************************************************************)
C7_DropByCourseSet ==
    [][\A s \in StudentIdArgs, c \in CourseIdArgs :
          Called("drop_course", <<s, c>>)
              => IF ~KnownStudent(s) \/ ~KnownCourse(c)
                 THEN Failed1("NotFound")
                 ELSE IF s \notin courses[c].enrolled_students
                 THEN Failed1("NotEnrolled")
                 ELSE /\ result'.ok
                      /\ students' = [students EXCEPT
                                         ![s].registered_courses = @ \ {c}]
                      /\ courses' = [courses EXCEPT
                                         ![c].enrolled_students = @ \ {s}]]_vars

(***************************************************************************)
(* C7 amended.  drop_course(s, c) fails with NotFound when s or c is       *)
(* unknown, fails with NotEnrolled exactly when c is not in                *)
(* s.registered_courses, and otherwise removes c from s.registered_courses *)
(* and s from c.enrolled_students; a failing drop changes nothing.  This   *)
(* holds in every registry state, also one loaded from files.              *)
(***************************************************************************)
C7_Drop ==
    [][\A s \in StudentIdArgs, c \in CourseIdArgs :
          Called("drop_course", <<s, c>>)
              => IF ~KnownStudent(s) \/ ~KnownCourse(c)
                 THEN Failed1("NotFound") /\ students' = students /\ courses' = courses
                 ELSE IF c \notin students[s].registered_courses
                 THEN Failed1("NotEnrolled") /\ students' = students /\ courses' = courses
                 ELSE /\ result'.ok
                      /\ students' = [students EXCEPT
                                         ![s].registered_courses = @ \ {c}]
                      /\ courses' = [courses EXCEPT
                                         ![c].enrolled_students = @ \ {s}]]_vars

\* In a loaded registry a drop was refused with NotEnrolled although the
\* course lists the student.
C7_Witness ==
    /\ result.op = "drop_course"
    /\ Failed("NotEnrolled")
    /\ result.args[1] \in courses[result.args[2]].enrolled_students

(***************************************************************************)
(* C8.  register_student(id, name) fails with InvalidInput when id or name *)
(* is empty, otherwise fails with DuplicateId when id is already a key of  *)
(* students, and otherwise creates the student with an empty registered    *)
(* set; a failing call leaves every existing record (name and registered   *)
(* courses) untouched.                                                     *)
(***************************************************************************)
C8_Register ==
    [][\A id \in StudentIdArgs, name \in StudentNameArgs :
          Called("register_student", <<id, name>>)
              => IF id = <<>> \/ name = ""
                 THEN Failed1("InvalidInput") /\ students' = students
                 ELSE IF id \in DOMAIN students
                 THEN Failed1("DuplicateId") /\ students' = students
                 ELSE /\ result'.returned /\ result'.ok
                      /\ DOMAIN students' = DOMAIN students \cup {id}
                      /\ students'[id].name = name
                      /\ students'[id].registered_courses = {}
                      /\ \A other \in DOMAIN students :
                            students'[other] = students[other]]_vars

\* A registration under an existing id and another name was refused, the
\* existing student keeping its name and its courses.
C8_Witness ==
    /\ result.op = "register_student"
    /\ Failed("DuplicateId")
    /\ students[result.args[1]].name # result.args[2]
    /\ students[result.args[1]].registered_courses # {}

(***************************************************************************)
(* C9.  For non-empty course_id, name and instructor, whether or not       *)
(* course_id already exists, add_course with max_students 0, negative or   *)
(* non-numeric returns an InvalidInput failure and creates or changes no   *)
(* course.                                                                 *)
(***************************************************************************)
ZeroNegativeOrNonNumeric(max_students) ==
    \/ max_students.t = "None"
    \/ max_students.t = "int" /\ max_students.v <= 0
    \/ max_students.t = "str" /\ (~IntOfStr(max_students.v).ok
                                    \/ IntOfStr(max_students.v).v <= 0)

C9_InvalidCapacity ==
    [][\A a \in AddCourseArgs :
          (/\ result'.op = "add_course"
           /\ result'.args[1] = a[1] /\ result'.args[2] = a[2]
           /\ result'.args[3] = a[3]
           /\ result'.args[4].t = a[4].t /\ result'.args[4].v = a[4].v
           /\ a[1] # <<>> /\ a[2] # "" /\ a[3] # ""
           /\ ZeroNegativeOrNonNumeric(a[4]))
              => Failed1("InvalidInput") /\ courses' = courses]_vars

(***************************************************************************)
(* C10.  Every call of register_student, add_course, enroll_student and    *)
(* drop_course returns a (success flag, message) result and never raises,  *)
(* whatever the arguments, a max_students that is not a number (None)      *)
(* included.                                                               *)
(***************************************************************************)
C10_NeverRaises == result.returned

(***************************************************************************)
(* Schedules, as the specification reads them.                             *)
(***************************************************************************)
\* The weekdays of a days string, "Th" read as the one code for Thursday.
Weekdays(days) ==
    {d \in {"M", "W", "F"} : d \in Range(days)}
        \cup {d \in {"T"} : \E i \in DOMAIN days :
                               days[i] = "T" /\ (i = Len(days) \/ days[i + 1] # "h")}
        \cup {d \in {"Th"} : \E i \in DOMAIN days :
                                days[i] = "T" /\ i < Len(days) /\ days[i + 1] = "h"}

Scheduled(course) == course.days # <<>> /\ course.time # <<>>

\* "H:MM" or "HH:MM"
IsHourMinute(s) ==
    /\ Len(s) \in {4, 5}
    /\ \A i \in DOMAIN s : IF i = Len(s) - 2 THEN s[i] = ":" ELSE s[i] \in Digits

\* A well-formed "HH:MM-HH:MM" range.
WellFormedRange(time) ==
    \E k \in DOMAIN time :
        /\ time[k] = "-"
        /\ IsHourMinute(SubSeq(time, 1, k - 1))
        /\ IsHourMinute(SubSeq(time, k + 1, Len(time)))

\* The last call asked whether course c conflicts with course o.
Asked(c, o) == result.op = "has_schedule_conflict" /\ result.args = <<c, o>>

(***************************************************************************)
(* C11.  has_schedule_conflict reads "Th" as the single weekday Thursday:  *)
(* two scheduled courses whose weekday sets are disjoint when "Th" is      *)
(* parsed as a unit ("T" versus "Th", "MT" versus "ThF") do not conflict,  *)
(* whatever their time ranges.                                             *)
(***************************************************************************)
C11_ThursdayIsOneDay ==
    \A c \in DOMAIN courses, o \in DOMAIN courses :
        (/\ Asked(c, o)
         /\ Scheduled(courses[c]) /\ Scheduled(courses[o])
         /\ Weekdays(courses[c].days) \cap Weekdays(courses[o].days) = {})
            => result.returned /\ result.value = PyBool(FALSE)

(***************************************************************************)
(* C12.  For two courses whose days strings use only the single-letter     *)
(* codes M, T, W, F and share no letter, has_schedule_conflict returns     *)
(* false for every pair of time ranges, identical ones included ("MWF"     *)
(* 9:00-10:15 versus "T" 9:00-10:15).                                      *)
(***************************************************************************)
C12_DisjointLetters ==
    \A c \in DOMAIN courses, o \in DOMAIN courses :
        (/\ Asked(c, o)
         /\ Range(courses[c].days) \subseteq {"M", "T", "W", "F"}
         /\ Range(courses[o].days) \subseteq {"M", "T", "W", "F"}
         /\ Range(courses[c].days) \cap Range(courses[o].days) = {})
            => result.returned /\ result.value = PyBool(FALSE)

\* "MWF" 9:00-10:15 was asked against "T" 9:00-10:15: no conflict.
C12_Witness ==
    /\ Asked(C1, C2)
    /\ courses[C1].days = MWF /\ courses[C2].days = Tue
    /\ courses[C1].time = From0900To1015 /\ courses[C2].time = From0900To1015
    /\ result.value = PyBool(FALSE)

(***************************************************************************)
(* C13.  For two scheduled courses that share a weekday and whose time     *)
(* ranges both parse to (start, end) in minutes since midnight,            *)
(* has_schedule_conflict returns true iff start1 < end2 and start2 < end1: *)
(* 9:00-10:15 and 10:15-11:30, which only touch, do not conflict, and      *)
(* 9:00-10:15 and 10:00-11:00 do.                                          *)
(***************************************************************************)
C13_OverlapRule ==
    \A c \in DOMAIN courses, o \in DOMAIN courses :
        (/\ Asked(c, o)
         /\ Scheduled(courses[c]) /\ Scheduled(courses[o])
         /\ Weekdays(courses[c].days) \cap Weekdays(courses[o].days) # {}
         /\ _parse_time_range(courses[c].time).ok
         /\ _parse_time_range(courses[o].time).ok)
            => LET r1 == _parse_time_range(courses[c].time)
                   r2 == _parse_time_range(courses[o].time)
                   times == {courses[c].time, courses[o].time}
               IN /\ result.value = PyBool(r1.start < r2.end /\ r2.start < r1.end)
                  /\ times = {From0900To1015, From1015To1130} => result.value = PyBool(FALSE)
                  /\ times = {From0900To1015, From1000To1100} => result.value = PyBool(TRUE)
                  /\ courses[c].time = From0900To1015
                        => r1.start = 540 /\ r1.end = 615

\* Two courses meeting on Tuesday, 9:00-10:15 and 10:15-11:30: no conflict.
C13_Witness ==
    /\ Asked(C1, C2)
    /\ "T" \in Weekdays(courses[C1].days) \cap Weekdays(courses[C2].days)
    /\ courses[C1].time = From0900To1015 /\ courses[C2].time = From1015To1130
    /\ result.value = PyBool(FALSE)

(***************************************************************************)
(* C14 as stated.  has_schedule_conflict never raises, and when either     *)
(* course's time string is not a well-formed "HH:MM-HH:MM" range (missing  *)
(* or extra '-', missing ':', non-digit parts) it returns false, so that   *)
(* enroll_student is not refused with ScheduleConflict because of a course *)
(* with such a time.                                                       *)
(***************************************************************************)
C14_MalformedNeverConflicts ==
    /\ \A c \in DOMAIN courses, o \in DOMAIN courses :
        (/\ Asked(c, o)
         /\ ~WellFormedRange(courses[c].time) \/ ~WellFormedRange(courses[o].time))
            => result.returned /\ result.value = PyBool(FALSE)
    /\ \A s \in DOMAIN students, c \in DOMAIN courses :
          (/\ result.op = "enroll_student" /\ result.args = <<s, c>>
           /\ ~WellFormedRange(courses[c].time))
              => result.returned /\ ~Failed("ScheduleConflict")

\* The time string cannot be parsed: it does not split on '-' into exactly
\* two parts, or a part, stripped, does not split on ':' into exactly two
\* pieces that int() takes (digits after an optional sign, blanks around).
Unparsed(time) ==
    LET Count(s, ch) == Cardinality({i \in DOMAIN s : s[i] = ch})
        dash == CHOOSE k \in DOMAIN time : time[k] = "-"
        Number(s) == LET body == strip(s)
                         ds == IF body # <<>> /\ body[1] \in {"+", "-"}
                               THEN Tail(body) ELSE body
                     IN ds # <<>> /\ \A i \in DOMAIN ds : ds[i] \in Digits
        Clock(s) == /\ Count(s, ":") = 1
                    /\ LET colon == CHOOSE k \in DOMAIN s : s[k] = ":"
                       IN /\ Number(SubSeq(s, 1, colon - 1))
                          /\ Number(SubSeq(s, colon + 1, Len(s)))
    IN ~(/\ Count(time, "-") = 1
         /\ Clock(strip(SubSeq(time, 1, dash - 1)))
         /\ Clock(strip(SubSeq(time, dash + 1, Len(time)))))

(***************************************************************************)
(* C14 amended.  has_schedule_conflict never raises, and when either       *)
(* course's time string cannot be parsed (it does not split on '-' into    *)
(* two parts that each split on ':' into two pieces int() takes) it        *)
(* returns false; enroll_student(s, c) is then not refused with            *)
(* ScheduleConflict when c's time, or the time of every course s holds,    *)
(* cannot be parsed.  A string that int() takes although it is no          *)
(* "HH:MM-HH:MM" range, such as "+9:00-10:15", is parsed and can conflict. *)
(***************************************************************************)
C14_UnparsedNeverConflicts ==
    /\ result.returned
    /\ \A c \in DOMAIN courses, o \in DOMAIN courses :
          (Asked(c, o) /\ (Unparsed(courses[c].time) \/ Unparsed(courses[o].time)))
              => result.value = PyBool(FALSE)
    /\ \A s \in DOMAIN students, c \in DOMAIN courses :
          (/\ result.op = "enroll_student" /\ result.args = <<s, c>>
           /\ \/ Unparsed(courses[c].time)
              \/ \A o \in students[s].registered_courses \cap DOMAIN courses :
                    o # c => Unparsed(courses[o].time))
              => ~Failed("ScheduleConflict")

\* A student holding a course on Tuesday got into a second course on
\* Tuesday whose time has no ':' at all.
C14_Witness ==
    /\ result.op = "enroll_student" /\ result.args = <<S1, C2>> /\ result.ok
    /\ C1 \in students[S1].registered_courses
    /\ "T" \in Weekdays(courses[C1].days) \cap Weekdays(courses[C2].days)
    /\ courses[C1].time = From0900To1015
    /\ courses[C2].time = TimeWithoutColons

(***************************************************************************)
(* C15.  For every registry state reached through the public operations,   *)
(* with any non-empty strings as ids and names (an id may hold a ';'),     *)
(* save_data followed by the construction of a new EnrollmentSystem on the *)
(* same directory yields the same student ids, the same course ids with    *)
(* equal attributes, and the same membership sets on both sides.           *)
(***************************************************************************)
Saving == {"register_student", "add_course", "enroll_student", "drop_course", "save_data"}

C15_SaveThenLoad ==
    [][(/\ result.op \in Saving /\ result.returned /\ result.ok
        /\ result'.op = "EnrollmentSystem")
          => /\ DOMAIN students' = DOMAIN students
             /\ DOMAIN courses' = DOMAIN courses
             /\ \A s \in DOMAIN students :
                   /\ students'[s].name = students[s].name
                   /\ students'[s].registered_courses = students[s].registered_courses
             /\ \A c \in DOMAIN courses :
                   /\ courses'[c].name = courses[c].name
                   /\ courses'[c].instructor = courses[c].instructor
                   /\ courses'[c].max_students = courses[c].max_students
                   /\ courses'[c].days = courses[c].days
                   /\ courses'[c].time = courses[c].time
                   /\ courses'[c].location = courses[c].location
                   /\ courses'[c].enrolled_students = courses[c].enrolled_students]_vars

(***************************************************************************)
(* C16.  When the writing of a persisted file fails during                 *)
(* register_student, add_course, enroll_student, drop_course or save_data, *)
(* the caller of that operation is told: it gets an error result or an     *)
(* exception.                                                              *)
(***************************************************************************)
C16_WriteFailureReported ==
    result.unwritten # {} => ~result.returned \/ ~result.ok

(***************************************************************************)
(* C17.  When the writing of the files fails during an otherwise valid     *)
(* register_student, add_course, enroll_student or drop_course, the        *)
(* mutation of the registry is kept and the result carries the success     *)
(* flag; the registry can then differ from what the files hold.            *)
(***************************************************************************)
C17_MutationKept ==
    [][(result'.unwritten # {} /\ result'.op # "save_data")
          => LET a == result'.args
             IN /\ result'.returned /\ result'.ok
                /\ CASE result'.op = "register_student" ->
                          /\ a[1] \notin DOMAIN students
                          /\ a[1] \in DOMAIN students'
                          /\ students'[a[1]].name = a[2]
                          /\ courses' = courses
                     [] result'.op = "add_course" ->
                          /\ a[1] \notin DOMAIN courses
                          /\ a[1] \in DOMAIN courses'
                          /\ students' = students
                     [] result'.op = "enroll_student" ->
                          /\ a[2] \notin students[a[1]].registered_courses
                          /\ a[2] \in students'[a[1]].registered_courses
                          /\ a[1] \in courses'[a[2]].enrolled_students
                     [] result'.op = "drop_course" ->
                          /\ a[2] \in students[a[1]].registered_courses
                          /\ a[2] \notin students'[a[1]].registered_courses
                          /\ a[1] \notin courses'[a[2]].enrolled_students]_vars

\* An enrolment went through while no file could be opened: the registry
\* holds it, the files do not.
C17_Witness ==
    /\ result.op = "enroll_student" /\ result.ok
    /\ result.unwritten = Tables
    /\ C1 \in students[S1].registered_courses
    /\ disk.students.exists
    /\ load_data(disk).students # students

(***************************************************************************)
(* Reading a file row by row, as the specification describes it.           *)
(***************************************************************************)
\* The smallest element of a set of row numbers, n + 1 when there is none.
FirstOf(K, n) == IF K = {} THEN n + 1 ELSE CHOOSE k \in K : \A j \in K : k <= j

\* The rows of courses.csv, of students.csv, that cannot be read.
UnreadableCourseRows(file) ==
    {k \in DOMAIN file.rows :
        \/ k = file.undecodable
        \/ ~int(row_get(file.rows[k].max_students, PyInt(DefaultMaxStudents))).ok}
UnreadableStudentRows(file) == {k \in DOMAIN file.rows : k = file.undecodable}

Members(cell) == IF cell = <<>> THEN {} ELSE Range(split(cell, ";"))

\* The registry side made of the first n rows, a later row replacing an
\* earlier one of the same id.
LastOf(rows, n, id, Id(_)) ==
    rows[CHOOSE i \in 1..n : Id(rows[i]) = id /\ \A j \in (i + 1)..n : Id(rows[j]) # id]

CoursesOfRows(rows, n) ==
    LET Id(row) == row.course_id
    IN [id \in {rows[i].course_id : i \in 1..n} |->
           LET row == LastOf(rows, n, id, Id)
           IN [course_id |-> id, name |-> row.name, instructor |-> row.instructor,
               enrolled_students |-> Members(row.enrolled_students),
               max_students |->
                   int(row_get(row.max_students, PyInt(DefaultMaxStudents))).v,
               days |-> row.days, time |-> row.time, location |-> row.location]]

StudentsOfRows(rows, n) ==
    LET Id(row) == row.student_id
    IN [id \in {rows[i].student_id : i \in 1..n} |->
           LET row == LastOf(rows, n, id, Id)
           IN [student_id |-> id, name |-> row.name,
               registered_courses |-> Members(row.registered_courses)]]

JustConstructed == result.op \in {"none", "EnrollmentSystem"}

(***************************************************************************)
(* C18 as stated.  The construction never raises, and when a row of one    *)
(* file cannot be read, the rows of that file before it stay loaded, the   *)
(* rows after it are not loaded, and the other file is loaded              *)
(* independently.                                                          *)
(***************************************************************************)
C18_RowsBeforeStayLoaded ==
    JustConstructed
        => /\ result.returned
           /\ courses = CoursesOfRows(disk.courses.rows,
                            FirstOf(UnreadableCourseRows(disk.courses),
                                    Len(disk.courses.rows)) - 1)
           /\ students = StudentsOfRows(disk.students.rows,
                            FirstOf(UnreadableStudentRows(disk.students),
                                    Len(disk.students.rows)) - 1)

(***************************************************************************)
(* C18 amended.  The construction never raises.  Of each file it loads a   *)
(* run of rows from the top that stops before the first row that cannot be *)
(* read, and nothing at or after that row; the run is all the rows before  *)
(* that row when every byte of the file decodes (the row fails in int()),  *)
(* and may stop earlier when the file holds bytes that do not decode: the  *)
(* rows read together with such bytes are not loaded.  What is loaded from *)
(* one file does not depend on the other file.                             *)
(***************************************************************************)
C18_LoadTolerant ==
    JustConstructed
        => /\ result.returned
           /\ LET rows == disk.courses.rows
                  first == FirstOf(UnreadableCourseRows(disk.courses), Len(rows))
              IN \E n \in 0..(first - 1) :
                    /\ courses = CoursesOfRows(rows, n)
                    /\ disk.courses.undecodable = 0 => n = first - 1
           /\ LET rows == disk.students.rows
                  first == FirstOf(UnreadableStudentRows(disk.students), Len(rows))
              IN \E n \in 0..(first - 1) :
                    /\ students = StudentsOfRows(rows, n)
                    /\ disk.students.undecodable = 0 => n = first - 1

\* The program was started on a courses.csv whose second row holds bytes
\* that do not decode and a students.csv that reads to the end: no course
\* is loaded, not even the first, and all three students are.
C18_Witness ==
    /\ result.op = "EnrollmentSystem"
    /\ disk.courses.undecodable = 2
    /\ disk.students.undecodable = 0
    /\ DOMAIN courses = {}
    /\ DOMAIN students = {S1, S2, S3}

(***************************************************************************)
(* C19.  After every successful register_student, add_course,              *)
(* enroll_student or drop_course (the writes succeeding) the courses and   *)
(* students tables describe exactly the whole registry: one row per        *)
(* record, with its attributes and its memberships (a full rewrite, not an *)
(* append).  A call that returns failure leaves the files as they were.    *)
(***************************************************************************)
Orders(S) ==
    {f \in [1..Cardinality(S) -> S] : \A i, j \in DOMAIN f : f[i] = f[j] => i = j}

DescribesCourses(file, C) ==
    /\ file.exists
    /\ Len(file.rows) = Cardinality(DOMAIN C)
    /\ \A c \in DOMAIN C :
          \E i \in DOMAIN file.rows :
             LET row == file.rows[i]
             IN /\ row.course_id = c
                /\ row.name = C[c].name /\ row.instructor = C[c].instructor
                /\ row.max_students = PyStr(str(C[c].max_students))
                /\ row.days = C[c].days /\ row.time = C[c].time
                /\ row.location = C[c].location
                /\ \E order \in Orders(C[c].enrolled_students) :
                      row.enrolled_students = join(";", order)

DescribesStudents(file, S) ==
    /\ file.exists
    /\ Len(file.rows) = Cardinality(DOMAIN S)
    /\ \A s \in DOMAIN S :
          \E i \in DOMAIN file.rows :
             LET row == file.rows[i]
             IN /\ row.student_id = s
                /\ row.name = S[s].name
                /\ \E order \in Orders(S[s].registered_courses) :
                      row.registered_courses = join(";", order)

C19_FullRewrite ==
    [][result'.op \in Saving \ {"save_data"}
          => IF result'.returned /\ result'.ok
             THEN /\ DescribesCourses(disk'.courses, courses')
                  /\ DescribesStudents(disk'.students, students')
             ELSE disk' = disk]_vars

\* The second of two students dropped a course: both tables still hold
\* two rows, no membership in any.
C19_Witness ==
    /\ result.op = "drop_course" /\ result.ok
    /\ Len(disk.students.rows) = 2 /\ Len(disk.courses.rows) = 2
    /\ \A i \in 1..2 : disk.students.rows[i].registered_courses = <<>>
    /\ \A c \in DOMAIN courses : courses[c].enrolled_students = {}

(***************************************************************************)
(* C20.  In the text of get_formatted_schedule the courses of each weekday *)
(* are listed in increasing order of their start time as a time of day,    *)
(* for all valid time strings: a 9:00-10:15 course comes before a          *)
(* 10:00-11:00 or a 10:15-11:30 course of the same day.                    *)
(***************************************************************************)
C20_SortedByStartTime ==
    result.op = "get_formatted_schedule"
        => \A day \in DOMAIN result.value.days :
              LET listed == result.value.days[day]
              IN \A i, j \in DOMAIN listed :
                    (/\ i < j
                     /\ WellFormedRange(listed[i].time)
                     /\ WellFormedRange(listed[j].time))
                        => _parse_time_range(listed[i].time).start
                              <= _parse_time_range(listed[j].time).start

(***************************************************************************)
(* C21.  In the text of get_formatted_schedule a registered course stands  *)
(* under a weekday exactly when it has both days and time and that weekday *)
(* is one of its meeting days, "Th" read as Thursday: a course with days   *)
(* "Th" stands once under Thursday and nowhere else, a course with days    *)
(* "TTh" once under Tuesday and once under Thursday, and a course with     *)
(* empty days or empty time under no day.                                  *)
(***************************************************************************)
TimesListed(listed, course) == Cardinality({i \in DOMAIN listed : listed[i] = course})

C21_DayGrouping ==
    (result.op = "get_formatted_schedule" /\ result.args[1] \in DOMAIN students)
        => \A c \in students[result.args[1]].registered_courses \cap DOMAIN courses :
              \A day \in DOMAIN result.value.days :
                 LET n == TimesListed(result.value.days[day], courses[c])
                 IN /\ n >= 1 <=> (Scheduled(courses[c]) /\ day \in Weekdays(courses[c].days))
                    /\ courses[c].days \in {Thu, TTh} => n <= 1

C21_Witness ==
    /\ result.op = "get_formatted_schedule"
    /\ result.args = <<S1>>
    /\ students[S1].registered_courses = {C1, C2}
    /\ courses[C2].days = TTh
    /\ ~Scheduled(courses[C1])
    /\ TimesListed(result.value.days["T"], courses[C2]) = 1
    /\ TimesListed(result.value.days["Th"], courses[C2]) = 1
    /\ \A day \in DOMAIN result.value.days :
          TimesListed(result.value.days[day], courses[C1]) = 0

(***************************************************************************)
(* C22.  Course.add_student(id) is idempotent for an id that is already    *)
(* enrolled: in every course state in which id is in enrolled_students it  *)
(* returns true and leaves enrolled_students as it is; and it returns      *)
(* false, changing nothing, when the course is at capacity and id is not   *)
(* enrolled.                                                               *)
(***************************************************************************)
C22_AddStudentIdempotent ==
    [][\A c \in DOMAIN courses, s \in {S1, S2, S3} :
          Called("add_student", <<c, s>>)
              => /\ s \in courses[c].enrolled_students
                       => result'.value = PyBool(TRUE) /\ courses' = courses
                 /\ (is_full(courses[c]) /\ s \notin courses[c].enrolled_students)
                       => result'.value = PyBool(FALSE) /\ courses' = courses]_vars

(***************************************************************************)
(* C23 as stated.  After construction from any contents of courses.csv and *)
(* students.csv, every loaded course has at most max_students enrolled     *)
(* students and max_students >= 1, and membership agrees on both sides and *)
(* names only loaded ids.                                                  *)
(***************************************************************************)
RegistryKeepsInvariants ==
    /\ \A c \in DOMAIN courses :
          /\ Cardinality(courses[c].enrolled_students) <= courses[c].max_students
          /\ courses[c].max_students >= 1
    /\ \A s \in DOMAIN students, c \in DOMAIN courses :
          c \in students[s].registered_courses <=> s \in courses[c].enrolled_students
    /\ \A s \in DOMAIN students : students[s].registered_courses \subseteq DOMAIN courses
    /\ \A c \in DOMAIN courses : courses[c].enrolled_students \subseteq DOMAIN students

RowsKeepInvariants(files) ==
    LET crows == Range(files.courses.rows)
        srows == Range(files.students.rows)
    IN /\ \A r \in crows :
             /\ Cardinality(Members(r.enrolled_students)) <= IntOfStr(r.max_students.v).v
             /\ IntOfStr(r.max_students.v).v >= 1
             /\ Members(r.enrolled_students) \subseteq {q.student_id : q \in srows}
       /\ \A q \in srows :
             Members(q.registered_courses) \subseteq {r.course_id : r \in crows}
       /\ \A r \in crows, q \in srows :
             r.course_id \in Members(q.registered_courses)
                 <=> q.student_id \in Members(r.enrolled_students)

C24_EnrollmentsDerived ==
    /\ (result.op \in Saving /\ result.ok /\ "enrollments" \notin result.unwritten)
          => LET rows == disk.enrollments.rows
             IN /\ disk.enrollments.exists
                /\ \A i \in DOMAIN rows :
                      /\ rows[i].student_id \in DOMAIN students
                      /\ rows[i].course_id
                            \in students[rows[i].student_id].registered_courses
                /\ \A s \in DOMAIN students : \A c \in students[s].registered_courses :
                      Cardinality({i \in DOMAIN rows :
                                      rows[i] = [student_id |-> s, course_id |-> c]}) = 1
    /\ JustConstructed
          => /\ students = StudentsOfRows(disk.students.rows, Len(disk.students.rows))
             /\ courses = CoursesOfRows(disk.courses.rows, Len(disk.courses.rows))

\* The program was started again on an enrollments table that still lists
\* (S1, C1), the drop having been written to the two other tables only:
\* S1 is loaded without C1.
C24_Witness ==
    /\ result.op = "EnrollmentSystem"
    /\ [student_id |-> S1, course_id |-> C1] \in Range(disk.enrollments.rows)
    /\ S1 \in DOMAIN students
    /\ C1 \in DOMAIN courses
    /\ C1 \notin students[S1].registered_courses
    /\ S1 \notin courses[C1].enrolled_students

(***************************************************************************)
(* C25.  Over any sequence of register_student, add_course, enroll_student *)
(* and drop_course calls the sets of student ids and of course ids only    *)
(* grow, and the name of a student and the name, instructor, max_students, *)
(* days, time and location of a course never change once the entity has    *)
(* been created or loaded.                                                 *)
(***************************************************************************)
RegistryOperations == {"register_student", "add_course", "enroll_student", "drop_course"}

C25_EntitiesKept ==
    [][result'.op \in RegistryOperations
          => /\ DOMAIN students \subseteq DOMAIN students'
             /\ DOMAIN courses \subseteq DOMAIN courses'
             /\ \A s \in DOMAIN students :
                   /\ students'[s].student_id = students[s].student_id
                   /\ students'[s].name = students[s].name
             /\ \A c \in DOMAIN courses :
                   /\ courses'[c].course_id = courses[c].course_id
                   /\ courses'[c].name = courses[c].name
                   /\ courses'[c].instructor = courses[c].instructor
                   /\ courses'[c].max_students = courses[c].max_students
                   /\ courses'[c].days = courses[c].days
                   /\ courses'[c].time = courses[c].time
                   /\ courses'[c].location = courses[c].location]_vars

\* A student who holds a course has been registered again under another
\* name and the call was refused: the name is the first one.
C25_Witness ==
    /\ result.op = "register_student"
    /\ ~result.ok
    /\ result.args[1] \in DOMAIN students
    /\ students[result.args[1]].name # result.args[2]
    /\ students[result.args[1]].registered_courses # {}
    /\ Cardinality(DOMAIN students) = 2
    /\ Cardinality(DOMAIN courses) = 2

(***************************************************************************)
(* C26.  save_data writes the three tables independently: when the writing *)
(* of one table fails, the two others are still written in the same call,  *)
(* each describing the registry as it is after the call; so the persisted  *)
(* courses and students tables can describe different memberships after a  *)
(* partially failed save.                                                  *)
(***************************************************************************)
C26_TablesWrittenIndependently ==
    (result.op \in Saving /\ result.ok)
        => /\ "courses" \notin result.unwritten
                 => DescribesCourses(disk.courses, courses)
           /\ "students" \notin result.unwritten
                 => DescribesStudents(disk.students, students)
           /\ "enrollments" \notin result.unwritten
                 => /\ disk.enrollments.exists
                    /\ Range(disk.enrollments.rows)
                          = UNION {{[student_id |-> s, course_id |-> c] :
                                       c \in students[s].registered_courses} :
                                   s \in DOMAIN students}

\* An enrolment whose write of courses.csv failed at open() while the two
\* other tables were written: students.csv lists C1 under S1, courses.csv
\* still lists nobody under C1.
C26_Witness ==
    /\ result.op = "enroll_student" /\ result.ok
    /\ result.unwritten = {"courses"}
    /\ DescribesStudents(disk.students, students)
    /\ C1 \in students[S1].registered_courses
    /\ \E i \in DOMAIN disk.courses.rows :
          /\ disk.courses.rows[i].course_id = C1
          /\ disk.courses.rows[i].enrolled_students = <<>>
    /\ [student_id |-> S1, course_id |-> C1] \in Range(disk.enrollments.rows)

(***************************************************************************)
(* C27.  When a row of courses.csv lacks an optional field, the column     *)
(* being absent from the header or the row being shorter than the header,  *)
(* load_data still loads that row, a missing max_students set to zero, and *)
(* goes on with the rows that follow.                                      *)
(***************************************************************************)
LacksMaxStudents(row) == row.max_students.t \in {"absent", "None"}

C27_MissingFieldsDefault ==
    (JustConstructed /\ disk.courses.undecodable = 0)
        => LET rows == disk.courses.rows
           IN \A i \in DOMAIN rows :
                 (\A j \in 1..i : LacksMaxStudents(rows[j])
                                      \/ int(rows[j].max_students).ok)
                    => /\ rows[i].course_id \in DOMAIN courses
                       /\ LacksMaxStudents(rows[i])
                             => courses[rows[i].course_id].max_students = 0

(***************************************************************************)
(* C28.  Every failing call of register_student, add_course,               *)
(* enroll_student or drop_course leaves the students map, the courses map, *)
(* every student's registered_courses and every course's enrolled_students *)
(* exactly as they were before the call.                                   *)
(***************************************************************************)
C28_FailureChangesNothing ==
    [][(result'.op \in RegistryOperations /\ ~(result'.returned /\ result'.ok))
          => students' = students /\ courses' = courses]_vars

\* A student who holds one course asked to drop another one and was
\* refused; a second student sits in the same course.
C28_Witness ==
    /\ result.op = "drop_course"
    /\ result.returned /\ ~result.ok
    /\ result.args[1] \in DOMAIN students
    /\ result.args[2] \in DOMAIN courses
    /\ students[result.args[1]].registered_courses # {}
    /\ result.args[2] \notin students[result.args[1]].registered_courses
    /\ \E c \in DOMAIN courses : Cardinality(courses[c].enrolled_students) = 2

(***************************************************************************)
(* C29.  If no student is registered in two conflicting courses, no call   *)
(* changes that: starting from a registry without such a student, after    *)
(* any sequence of operations no student is registered in two courses c1,  *)
(* c2 with c1.has_schedule_conflict(c2) true.                              *)
(***************************************************************************)
ConflictFree(S, C) ==
    \A s \in DOMAIN S :
       \A c1, c2 \in S[s].registered_courses \cap DOMAIN C :
          c1 # c2 => ~has_schedule_conflict(C[c1], C[c2])

C29_NoConflictingPair ==
    [][ConflictFree(students, courses) => ConflictFree(students', courses')]_vars

\* A student who holds a Tuesday 9:00-10:15 course has been enrolled in a
\* second course that shares the day and starts when the first one ends.
C29_Witness ==
    /\ result.op = "enroll_student" /\ result.ok
    /\ students[S1].registered_courses = {C1, C2}
    /\ <<S1, C1>> \in held /\ <<S1, C2>> \in held
    /\ "T" \in Weekdays(courses[C1].days) \cap Weekdays(courses[C2].days)
    /\ courses[C1].time = From0900To1015
    /\ courses[C2].time = From1015To1130

(***************************************************************************)
(* C30.  has_schedule_conflict is symmetric: a.has_schedule_conflict(b)    *)
(* equals b.has_schedule_conflict(a) for all courses a and b, whatever     *)
(* their days and time strings, well-formed or not; so whether             *)
(* enroll_student refuses a course for its schedule does not depend on     *)
(* which of the two courses the student took first: a refusal for the      *)
(* schedule comes only when a course the student holds conflicts with the  *)
(* new one, and an enrolment goes through only when none does, the         *)
(* conflict asked in the direction the code does not ask.                  *)
(***************************************************************************)
C30_ConflictSymmetric ==
    /\ \A a, b \in DOMAIN courses :
          has_schedule_conflict(courses[a], courses[b])
              = has_schedule_conflict(courses[b], courses[a])
    /\ \A c, o \in DOMAIN courses :
          Asked(c, o)
              => result.value = PyBool(has_schedule_conflict(courses[o], courses[c]))
    /\ \A s \in DOMAIN students, c \in DOMAIN courses :
          (result.op = "enroll_student" /\ result.args = <<s, c>>)
              => /\ Failed("ScheduleConflict")
                       => \E e \in students[s].registered_courses :
                             /\ e \in DOMAIN courses
                             /\ has_schedule_conflict(courses[e], courses[c])
                 /\ result.ok
                       => \A e \in (students[s].registered_courses \ {c}) \cap DOMAIN courses :
                             ~has_schedule_conflict(courses[e], courses[c])

\* C2 (Tuesday, 10:00-11:00) was asked about C1 (Monday and Tuesday,
\* "+9:00-10:15") and conflicts with it, as C1 does with C2.
C30_Witness ==
    /\ Asked(C2, C1)
    /\ result.value = PyBool(TRUE)
    /\ courses[C1].days = MT /\ courses[C1].time = TimeWithSign
    /\ courses[C2].days = Tue /\ courses[C2].time = From1000To1100
    /\ has_schedule_conflict(courses[C1], courses[C2])

(***************************************************************************)
(* C31.  A course created through add_course has empty days, time and      *)
(* location; so in a registry all of whose courses were created through    *)
(* add_course, none loaded from a file, enroll_student never answers       *)
(* ScheduleConflict, in any reachable state.                               *)
(***************************************************************************)
C31_AddedCoursesNeverConflict ==
    /\ \A c \in DOMAIN courses :
          courses[c].days = <<>> /\ courses[c].time = <<>> /\ courses[c].location = ""
    /\ ~Failed("ScheduleConflict")

\* A student who holds one added course has been enrolled in a second one.
C31_Witness ==
    /\ result.op = "enroll_student" /\ result.ok
    /\ Cardinality(students[result.args[1]].registered_courses) = 2
    /\ Cardinality(DOMAIN courses) = 2
    /\ \A c \in DOMAIN courses : ~Scheduled(courses[c])

(***************************************************************************)
(* Seats.  A student is enrolled in a course when either side lists it.    *)
(***************************************************************************)
Enrolled(S, C, s, c) ==
    c \in S[s].registered_courses \/ s \in C[c].enrolled_students

\* enroll_student(t, c) would succeed for every registered student t other
\* than s who is not enrolled in c and holds no course conflicting with c.
OthersCanEnroll(S, C, s, c) ==
    \A t \in DOMAIN S \ {s} :
       (~Enrolled(S, C, t, c) /\ ~HasConflictWithEnrolled(S, C, t, c))
           => enroll_student_call(S, C, t, c).ok

\* While a course is full, enroll_student of a registered student who is
\* not enrolled in it fails with CourseFull.
FullCourseRefuses ==
    \A t \in DOMAIN students, c \in DOMAIN courses :
       (/\ Called("enroll_student", <<t, c>>)
        /\ is_full(courses[c])
        /\ ~Enrolled(students, courses, t, c))
           => Failed1("CourseFull") /\ courses' = courses /\ students' = students

(***************************************************************************)
(* C32 as stated.  A successful drop_course on a full course frees exactly *)
(* one seat: immediately afterwards the course is not full and             *)
(* enroll_student succeeds for a different registered student who is not   *)
(* enrolled in it and holds no conflicting course; and while a course is   *)
(* full, every enroll_student of a non-enrolled student into it fails with *)
(* CourseFull.                                                             *)
(***************************************************************************)
C32_DropFreesOneSeat ==
    [][/\ \A s \in DOMAIN students, c \in DOMAIN courses :
             (/\ Called("drop_course", <<s, c>>)
              /\ result'.ok
              /\ is_full(courses[c]))
                 => /\ Cardinality(courses'[c].enrolled_students)
                          = Cardinality(courses[c].enrolled_students) - 1
                    /\ ~is_full(courses'[c])
                    /\ OthersCanEnroll(students', courses', s, c)
       /\ FullCourseRefuses]_vars

(***************************************************************************)
(* C32 amended.  A successful drop_course(s, c) takes s out of             *)
(* c.enrolled_students when it is there and changes nothing else of c.     *)
(* When c listed s and held exactly max_students students, as in every     *)
(* state reached from an empty registry, the drop frees exactly one seat:  *)
(* c is not full afterwards and enroll_student succeeds for a different    *)
(* registered student who is not enrolled in c and holds no conflicting    *)
(* course.  When c did not list s, or held more than max_students          *)
(* students (registries loaded from files), c is still full after the      *)
(* drop.  While a course is full, every enroll_student of a registered     *)
(* student who is not enrolled in it fails with CourseFull.                *)
(***************************************************************************)
C32_DropFreesListedSeat ==
    [][/\ \A s \in DOMAIN students, c \in DOMAIN courses :
             (/\ Called("drop_course", <<s, c>>)
              /\ result'.ok
              /\ is_full(courses[c]))
                 => LET before == courses[c].enrolled_students
                        exactly == /\ s \in before
                                   /\ Cardinality(before) = courses[c].max_students
                    IN /\ courses'[c] = [courses[c] EXCEPT !.enrolled_students = @ \ {s}]
                       /\ IF exactly
                          THEN /\ Cardinality(courses'[c].enrolled_students)
                                     = Cardinality(before) - 1
                               /\ ~is_full(courses'[c])
                               /\ OthersCanEnroll(students', courses', s, c)
                          ELSE is_full(courses'[c])
       /\ FullCourseRefuses]_vars

\* A student took the only seat of a course and gave it back at once: the
\* course is empty again and the other registered student can have it.
C32_Witness ==
    /\ snapshot.phase = "dropped"
    /\ result.op = "drop_course" /\ result.ok
    /\ LET s == snapshot.student_id
           c == snapshot.course_id
       IN /\ courses[c].max_students = 1
          /\ snapshot.courses[c].enrolled_students = {}
          /\ courses[c].enrolled_students = {}
          /\ \E t \in DOMAIN students \ {s} :
                /\ ~Enrolled(students, courses, t, c)
                /\ enroll_student_call(students, courses, t, c).ok

(***************************************************************************)
(* C33.  After a partial load, an error part-way through courses.csv or    *)
(* students.csv, the first successful mutating operation rewrites the      *)
(* files from the partial registry: the rows that were not loaded are no   *)
(* longer in the files afterwards.                                         *)
(***************************************************************************)
C33_PartialLoadRewritten ==
    [][(result'.op \in RegistryOperations /\ result'.returned /\ result'.ok)
          => /\ DescribesCourses(disk'.courses, courses')
             /\ DescribesStudents(disk'.students, students')
             /\ disk'.courses.undecodable = 0 /\ disk'.students.undecodable = 0
             /\ \A i \in DOMAIN disk.courses.rows :
                   disk.courses.rows[i].course_id \notin DOMAIN courses
                       => \A j \in DOMAIN disk'.courses.rows :
                             disk'.courses.rows[j].course_id
                                 # disk.courses.rows[i].course_id
             /\ \A i \in DOMAIN disk.students.rows :
                   disk.students.rows[i].student_id \notin DOMAIN students
                       => \A j \in DOMAIN disk'.students.rows :
                             disk'.students.rows[j].student_id
                                 # disk.students.rows[i].student_id]_vars

\* Of the three rows of courses.csv only the first was loaded; a student
\* then enrolled in that course, and courses.csv now holds that one row.
C33_Witness ==
    /\ result.op = "enroll_student" /\ result.ok
    /\ DOMAIN courses = {C1}
    /\ Len(disk.courses.rows) = 1
    /\ disk.courses.rows[1].course_id = C1
    /\ DOMAIN students = {S1, S2, S3}
    /\ Len(disk.students.rows) = 3

(***************************************************************************)
(* C34.  Through the enroll_course handler of the window a student who     *)
(* already has 6 or more registered courses is refused before the registry *)
(* is called; so from a state in which the logged-in student has at most 6 *)
(* courses, no Enroll or Drop of the window brings that student above 6    *)
(* registered courses.                                                     *)
(***************************************************************************)
C34_CourseLimit ==
    [][\A s \in DOMAIN students :
          LET n == Cardinality(students[s].registered_courses)
          IN /\ (result'.op = "gui.enroll_course" /\ result'.args[1] = s
                    /\ n >= CourseLimit)
                   => /\ ~result'.ok
                      /\ result'.msg = "You cannot enroll in more than 6 courses per semester."
                      /\ students' = students /\ courses' = courses /\ disk' = disk
             /\ n <= CourseLimit
                   => Cardinality(students'[s].registered_courses) <= CourseLimit]_vars

\* The student holds six of the seven courses and has just been refused
\* the seventh, in which there is room.
C34_Witness ==
    /\ result.op = "gui.enroll_course"
    /\ result.msg = "You cannot enroll in more than 6 courses per semester."
    /\ Cardinality(students[S1].registered_courses) = CourseLimit
    /\ result.args[2] \notin students[S1].registered_courses
    /\ ~is_full(courses[result.args[2]])

\* C35: from the default accounts, after any sequence of register_user calls
\* and login-window logins, no two accounts hold the same non-empty student
\* id, and an account whose student id is set keeps that account and that id
\* in every step.
HoldsAnId(U, u) == Truthy(U[u].student_id)

StudentIdsUnique(U) ==
    \A u, v \in DOMAIN U :
        (u # v /\ HoldsAnId(U, u)) => ~SameOptionalStr(U[u].student_id, U[v].student_id)

C35_StudentIdsUniqueAndKept ==
    [][/\ StudentIdsUnique(users)
       /\ StudentIdsUnique(users')
       /\ \A u \in DOMAIN users :
              HoldsAnId(users, u) =>
                  /\ u \in DOMAIN users'
                  /\ users'[u].student_id = users[u].student_id]_vars

\* the default admin account took S002 at the login window, and a later
\* registration asking for the same id was refused
C35_Witness ==
    /\ users[AdminName].student_id = PyStr(S002)
    /\ result.op = "register_user"
    /\ ~result.ok
    /\ result.args[4] = PyStr(S002)
    /\ result.msg = "Student ID is already registered to another account."
    /\ result.args[1] = Bob
    /\ Bob \notin DOMAIN users

====
